---------------------------- MODULE Spec2Model ----------------------------
(***************************************************************************)
(* The desk man-in-the-middle controller (kortschak/desk): the two writers *)
(* of the controller UART that run as goroutines (the handset pump and the *)
(* keep-alive task), the external move_to handlers (HTTP and Bluetooth),   *)
(* the bus mutex m.mu, the activity pin, the button pin and its interrupt, *)
(* the activity channel m.last, and a discrete clock.                      *)
(*                                                                         *)
(* Time is counted in ticks; keepAliveInterval is KeepAliveInterval ticks. *)
(* A byte is an integer in 0..255; a packet is a tuple of bytes.           *)
(***************************************************************************)
EXTENDS Integers, Sequences, FiniteSets, TLC

\* ------------------------------------------------------------------ bounds

\* The clock of Spec stops at MaxTime, the clock of SpecKA at MaxTimeKA.
MaxTime == 2

MaxTimeKA == 4

\* The window of the controller UART trace that is kept.
BusWin == 6

\* The window of the handset UART trace that is kept.
HandsetWin == 2

\* A saturating bound of the counter of pump writes seen by a blocked task.
MaxWaited == 3

\* ------------------------------------------------------- program constants

\* keepAliveInterval, in ticks.
KeepAliveInterval == 2

\* The watchdog's TimeoutMillis: 10000, counted in units of 5 s.
WatchdogTimeout == 2

\* The number of copies of the packet in one command or keep-alive burst.
BurstLen == 5

\* The capacity of the activity channel m.last.
LastCap == 1

\* No task, no answer.
None == "none"

\* No time: a value that is before every time of the clock.
NoTime == 0 - 1

Tasks == {"pump", "ctl", "http", "bt", "ka"}

\* The goroutines that take ctx.
Stoppable == {"pump", "ctl", "ka"}

Cmds == {"http", "bt"}

\* The tasks that update the watchdog: the two pumps' callbacks and main.
Updaters == {"pump", "ctl", "main"}

Bursters == {"http", "bt", "ka"}

\* ---------------------------------------------------------------- helpers

Max(a, b) == IF a >= b THEN a ELSE b

Min(a, b) == IF a <= b THEN a ELSE b

\* Bit k (0 is the least significant) of byte b is set.
BitSet(b, k) == (b \div (2 ^ k)) % 2 = 1

\* The last k elements of sequence s.
LastN(s, k) == IF Len(s) <= k THEN s ELSE SubSeq(s, Len(s) - k + 1, Len(s))

\* ------------------------------------------------------------------ codec

\* The byte sum "check += b" of key, in 8 bits.
Sum3(p) == (p[1] + p[2] + p[3]) % 256

press == <<"m", "1", "2", "3", "4", "u", "d">>

RECURSIVE keyBitsDescending(_, _)
\* The pressed buttons from the k-th on, the highest bit first.
keyBitsDescending(b, k) ==
    IF k > Len(press) THEN <<>>
    ELSE keyBitsDescending(b, k + 1)
            \o (IF BitSet(b, k - 1) THEN <<press[k]>> ELSE <<>>)

RECURSIVE keyBits(_, _)
\* The loop of key from the k-th button on: the buttons whose bit is set in
\* b, in the order of press.
keyBits(b, k) ==
    IF k > Len(press) THEN <<>>
    ELSE (IF BitSet(b, k - 1) THEN <<press[k]>> ELSE <<>>) \o keyBits(b, k + 1)

\* A key that reads the buttons from the first byte after the header.
keyFirstByte(p) ==
    IF Len(p) # 4 THEN [s |-> <<>>, err |-> "errInvalidPacketLength"]
    ELSE IF Sum3(p) # p[4] THEN [s |-> <<>>, err |-> "errChecksumMismatch"]
    ELSE IF keyBits(p[1], 1) = <<>> THEN [s |-> <<"_">>, err |-> "nil"]
    ELSE [s |-> keyBits(p[1], 1), err |-> "nil"]

\* A key that decodes the buttons before it looks at the checksum and returns
\* them with the error.
keyBestEffort(p) ==
    IF Len(p) # 4 THEN [s |-> <<>>, err |-> "errInvalidPacketLength"]
    ELSE [s |-> IF keyBits(p[2], 1) = <<>> THEN <<"_">> ELSE keyBits(p[2], 1),
          err |-> IF Sum3(p) # p[4] THEN "errChecksumMismatch" ELSE "nil"]

\* key(p) for the four bytes after the header: the pressed buttons and the error.
key(p) ==
    IF Len(p) # 4 THEN [s |-> <<>>, err |-> "errInvalidPacketLength"]
    ELSE IF Sum3(p) # p[4] THEN [s |-> <<>>, err |-> "errChecksumMismatch"]
    ELSE IF keyBits(p[2], 1) = <<>> THEN [s |-> <<"_">>, err |-> "nil"]
    ELSE [s |-> keyBits(p[2], 1), err |-> "nil"]

\* A move_to packet whose button bit is one place low.
CmdPktShifted(h) == LET b == (2^(h - 1)) % 256 IN <<165, 0, b, 255 - b, 255>>

\* The command packet of the move_to handlers for stored height h.
CmdPkt(h) ==
    LET b == (2 ^ h) % 256
    IN  <<165, 0, b, 255 - b, 255>>

\* A keep-alive packet that is an Up press only.
KeepAlivePktUp == <<165, 0, 32, 223, 255>>

\* The packet of keepAlive: an Up+Down button press.
KeepAlivePkt == <<165, 0, 96, 159, 255>>

\* strconv.Itoa and fmt's %d of a number that is not negative: its decimal
\* digits, most significant first, without padding.
DigitChar == <<"0", "1", "2", "3", "4", "5", "6", "7", "8", "9">>

RECURSIVE Itoa(_)
Itoa(v) ==
    IF v < 10 THEN <<DigitChar[v + 1]>>
    ELSE Append(Itoa(v \div 10), DigitChar[(v % 10) + 1])

\* d := 1; for range k { d *= 10 }
RECURSIVE Pow10(_)
Pow10(k) == IF k = 0 THEN 1 ELSE 10 * Pow10(k - 1)

\* strings.Repeat("0", k)
Zeros(k) == [i \in 1..k |-> "0"]

\* position.String of p = <<mantissa, exponent>>: the mantissa alone, the
\* quotient and the remainder by 10^-exponent both printed with %d around a
\* point, or the mantissa followed by zeros.
String(p) ==
    LET mantissa == p[1]
        exponent == p[2]
        d        == Pow10(0 - exponent)
    IN  CASE exponent = 0 -> Itoa(mantissa)
          [] exponent < 0 ->
               Itoa(mantissa \div d) \o <<".">> \o Itoa(mantissa % d)
          [] OTHER -> Itoa(mantissa) \o Zeros(exponent)

\* strconv.Atoi on a string given as a sequence of characters: an optional
\* sign, then one or more decimal digits; anything else is an error.
DigitVal == [c \in {"0", "1", "2", "3", "4", "5", "6", "7", "8", "9"} |->
               CASE c = "0" -> 0 [] c = "1" -> 1 [] c = "2" -> 2 [] c = "3" -> 3
                 [] c = "4" -> 4 [] c = "5" -> 5 [] c = "6" -> 6 [] c = "7" -> 7
                 [] c = "8" -> 8 [] c = "9" -> 9]

RECURSIVE DigitsVal(_, _)
DigitsVal(s, acc) ==
    IF s = <<>> THEN acc ELSE DigitsVal(Tail(s), 10 * acc + DigitVal[Head(s)])

Atoi(s) ==
    LET signed == s # <<>> /\ Head(s) \in {"+", "-"}
        body   == IF signed THEN Tail(s) ELSE s
    IN  IF body = <<>> \/ \E k \in DOMAIN body : body[k] \notin DOMAIN DigitVal
        THEN [val |-> 0, err |-> TRUE]
        ELSE [val |-> IF signed /\ Head(s) = "-" THEN 0 - DigitsVal(body, 0)
                      ELSE DigitsVal(body, 0),
              err |-> FALSE]

\* The table digits, from wire byte to character code ('0' is 48, 'E' 69,
\* 'R' 82, 'T' 84); 0 for a byte that is not in the table.
digits(b) ==
    CASE b = 63 -> 48 [] b = 6 -> 49 [] b = 91 -> 50 [] b = 79 -> 51
      [] b = 102 -> 52 [] b = 109 -> 53 [] b = 125 -> 54 [] b = 7 -> 55
      [] b = 127 -> 56 [] b = 111 -> 57
      [] b = 119 -> 82 [] b = 120 -> 84 [] b = 121 -> 69
      [] OTHER -> 0

\* A digit that never reports the decimal point.
digitDotIgnored(b) ==
    LET d == digits(b % 128)
    IN  [digit |-> IF d = 0 THEN 63 ELSE d, dot |-> FALSE]

\* A digit that returns the table's zero where the table has no character.
digitNoPlaceholder(b) == [digit |-> digits(b % 128), dot |-> b >= 128]

\* digit(b): the character for b with the decimal point bit cleared, '?' (63)
\* when the table has none, and whether the decimal point bit is set.
digit(b) ==
    LET d == digits(b % 128)
    IN  [digit |-> IF d = 0 THEN 63 ELSE d, dot |-> b >= 128]

\* A fault test that takes the first byte through the digit table, so that
\* 'E' with the decimal point is a fault too.
IsFaultByDigit(p) == Len(p) = 4 /\ digit(p[1]).digit = 69

\* The test of newContErr: four bytes of which the first is 0x79.
IsFault(p) == Len(p) = 4 /\ p[1] = 121

\* A newContErr that takes the code from the last digit only.
newContErrUnits(p) ==
    IF ~IsFault(p) THEN [err |-> "nil", code |-> 0]
    ELSE IF (p[1] + p[2] + p[3]) % 256 # p[4]
    THEN [err |-> "contErr+errChecksumMismatch",
          code |-> (digit(p[3]).digit - 48) % 256]
    ELSE [err |-> "contErr", code |-> (digit(p[3]).digit - 48) % 256]

\* newContErr(p): "nil", or the controller error with its code, joined with
\* the checksum mismatch when the bytes do not sum to the last. The code is
\* computed in bytes.
newContErr(p) ==
    IF ~IsFault(p) THEN [err |-> "nil", code |-> 0]
    ELSE LET h == digit(p[2]).digit
             l == digit(p[3]).digit
             c == (10 * ((h - 48) % 256) + ((l - 48) % 256)) % 256
         IN  IF (p[1] + p[2] + p[3]) % 256 # p[4]
             THEN [err |-> "contErr+errChecksumMismatch", code |-> c]
             ELSE [err |-> "contErr", code |-> c]

\* A reset test that does not look at the checksum byte.
IsResetAnyChecksum(p) == SubSeq(p, 1, 3) = <<119, 109, 120>>

\* bytes.Equal(p, []byte{0x77, 0x6d, 0x78, 0x5c})
IsReset(p) == p = <<119, 109, 120, 92>>

RECURSIVE heightLoopZeroOnMismatch(_, _, _, _, _)
\* A loop of height that returns the zero position with a checksum mismatch.
heightLoopZeroOnMismatch(p, i, check, mant, dot) ==
    IF i = 3
    THEN IF check # p[4]
         THEN [pos |-> <<0, 0>>, err |-> "errChecksumMismatch", code |-> 0]
         ELSE [pos |-> <<mant, dot - 2>>, err |-> "nil", code |-> 0]
    ELSE IF digit(p[i + 1]).dot /\ dot # 2
    THEN [pos |-> <<0, 0>>, err |-> "errExtraDot", code |-> 0]
    ELSE heightLoopZeroOnMismatch(p, i + 1, (check + p[i + 1]) % 256,
                                  10 * mant + ((digit(p[i + 1]).digit - 48) % 256),
                                  IF digit(p[i + 1]).dot THEN i ELSE dot)

RECURSIVE heightLoopLastDot(_, _, _, _, _)
\* A loop of height that takes the last decimal point and reports no extra
\* one.
heightLoopLastDot(p, i, check, mant, dot) ==
    IF i = 3
    THEN [pos |-> <<mant, dot - 2>>,
          err |-> IF check # p[4] THEN "errChecksumMismatch" ELSE "nil",
          code |-> 0]
    ELSE heightLoopLastDot(p, i + 1, (check + p[i + 1]) % 256,
                           10 * mant + ((digit(p[i + 1]).digit - 48) % 256),
                           IF digit(p[i + 1]).dot THEN i ELSE dot)

\* The loop of height over p[:3] from index i (from 0), with the checksum, the
\* mantissa and the index of the decimal point so far.
RECURSIVE heightLoop(_, _, _, _, _)
heightLoop(p, i, check, mant, dot) ==
    IF i = 3
    THEN [pos |-> <<mant, dot - 2>>,
          err |-> IF check # p[4] THEN "errChecksumMismatch" ELSE "nil",
          code |-> 0]
    ELSE LET b == p[i + 1]
             d == digit(b)
         IN  IF d.dot /\ dot # 2
             THEN [pos |-> <<0, 0>>, err |-> "errExtraDot", code |-> 0]
             ELSE heightLoop(p, i + 1, (check + b) % 256,
                             10 * mant + ((d.digit - 48) % 256),
                             IF d.dot THEN i ELSE dot)

\* height(p) for the four bytes after the header: the position
\* <<mantissa, exponent>>, the error, and the code of a controller error.
height(p) ==
    IF Len(p) # 4
    THEN [pos |-> <<0, 0>>, err |-> "errInvalidPacketLength", code |-> 0]
    ELSE IF p = <<0, 0, 0, 0>>
    THEN [pos |-> <<0, 0>>, err |-> "errNoHeight", code |-> 0]
    ELSE IF IsReset(p)
    THEN [pos |-> <<0, 0>>, err |-> "errReset", code |-> 0]
    ELSE IF newContErr(p).err # "nil"
    THEN [pos |-> <<0, 0>>, err |-> newContErr(p).err, code |-> newContErr(p).code]
    ELSE heightLoop(p, 0, 0, 0, 2)

\* ----------------------------------------------------------------- inputs

\* A byte that is not the start byte, arriving before a packet.
StrayBytes == {0, 90, 255}

\* The handset's packets with no button and with Up pressed.
ValidFrames == {<<165, 0, 0, 255, 255>>, <<165, 0, 32, 223, 255>>}

RECURSIVE SplitFrom(_, _, _, _)
\* The chunks of s from its i-th byte on, cut after every position in cuts,
\* with cur the chunk in the making.
SplitFrom(s, cuts, i, cur) ==
    IF i > Len(s)
    THEN <<cur>>
    ELSE IF (i - 1) \in cuts
    THEN <<cur>> \o SplitFrom(s, cuts, i + 1, <<s[i]>>)
    ELSE SplitFrom(s, cuts, i + 1, Append(cur, s[i]))

\* The bytes of s as the successive calls of r.src.Read give them.
Split(s, cuts) == SplitFrom(s, cuts, 2, <<s[1]>>)

\* The arguments key is tried on: every key byte, with its complement or with
\* itself again as the third byte, and FF, 00 or FE as the checksum byte;
\* every key byte and its complement after a first byte of 01 or 20, with the
\* sum as the checksum byte; and one argument that is too short.
KeyPayloads ==
    UNION {{<<0, k, 255 - k, x>>, <<0, k, k, x>>} :
              k \in 0..255, x \in {255, 0, 254}}
        \cup {<<a, k, 255 - k, (a + 255) % 256>> : a \in {1, 32}, k \in 0..255}
        \cup {<<0, 32, 223>>}

\* The bytes of the digits 0 to 9 on the display, in that order.
DigitBytes == <<63, 6, 91, 79, 102, 109, 125, 7, 127, 111>>

\* Where the decimal point bit is set in the digit payloads: every choice of
\* places, from none to all three.
DotFlags == {<<f0, f1, f2>> : f0 \in {0, 1}, f1 \in {0, 1}, f2 \in {0, 1}}

\* Every three digits of the display with each placing of the decimal point.
DigitTriples ==
    {<<DigitBytes[i] + 128 * f[1], DigitBytes[j] + 128 * f[2],
       DigitBytes[k] + 128 * f[3]>> :
        i \in 1..10, j \in 1..10, k \in 1..10, f \in DotFlags}

\* A blank, a byte that is in no table, R, T, E, E with the decimal point, and
\* the digits 5, 0 and 1, the last also with the decimal point.
OtherBytes == {0, 1, 119, 120, 121, 249, 109, 63, 6, 134}

OtherTriples == {<<a, b, c>> : a \in OtherBytes, b \in OtherBytes, c \in OtherBytes}

\* The arguments height is tried on: three display bytes with their sum, or
\* with one more than their sum, as the checksum byte.
HeightPayloads ==
    UNION {{<<t[1], t[2], t[3], (t[1] + t[2] + t[3]) % 256>>,
            <<t[1], t[2], t[3], (t[1] + t[2] + t[3] + 1) % 256>>} :
              t \in DigitTriples \cup OtherTriples}

\* The blank display and the reset display, the latter also with a checksum
\* byte that is one too high.
Distinguished ==
    {<<0, 0, 0, 0>>, <<119, 109, 120, 92>>, <<119, 109, 120, 93>>}

\* The reader of the handset pump: r.start and r.len.
ReaderStart == 165

ReaderLen == 5

\* The longest stream given to the reader.
MaxStream == 7

\* The bytes of the streams: the start byte, 00, and 5B, with which
\* A5 5B 00 00 sums to 00.
StreamBytes == {165, 0, 91}

\* The streams given to the reader: they begin with the start byte and are as
\* long as a packet or longer.
Streams ==
    UNION {{<<ReaderStart>> \o t : t \in [1..(k - 1) -> StreamBytes]} :
              k \in ReaderLen..MaxStream}

\* The bytes after the start byte in the over-long packets given to the two
\* readers: with them a packet can pass the reader's sum (A5 5B 00 00 00 and
\* 5A A6 00 00 00), key's sum (00 20 DF FF) and height's (06 5B 4F B0).
LongBytes == {0, 6, 32, 79, 91, 166, 176, 223, 255}

\* A start byte and four bytes, alone or with a stray byte after them that is
\* not the start byte.
LongStreams ==
    {<<h>> \o t \o e : h \in {165, 90}, t \in [1..4 -> LongBytes],
                       e \in {<<>>, <<0>>}}

\* len(r.buf): the most bytes one r.src.Read gives.
ReaderBuf == 16

\* The reads of a line that is not read as fast as it is written: each
\* r.src.Read gives one, two or three whole packets.
MaxChunks == 4

BackFrame == <<165, 0, 32, 223, 255>>

BackChunks ==
    {BackFrame, BackFrame \o BackFrame, BackFrame \o BackFrame \o BackFrame}

RECURSIVE Concat(_)
\* The sequences of ss end to end.
Concat(ss) == IF ss = <<>> THEN <<>> ELSE Head(ss) \o Concat(Tail(ss))

\* What uartReader.packet hands to the handset pump: a full packet with no
\* error, or a framing error.
HandsetPackets ==
    { [pkt |-> <<165, 0, 0, 255, 255>>, err |-> "nil"],
      [pkt |-> <<165, 0, 32, 223, 255>>, err |-> "nil"],
      [pkt |-> <<165, 0, 32, 223, 0>>, err |-> "nil"],
      [pkt |-> <<165, 0>>, err |-> "errShortPacket"] }

\* What uartReader.packet hands to the controller pump: 123, 72.0, no height,
\* reset, the fault E01, a wrong checksum, two decimal points, and a framing
\* error.
ControllerPackets ==
    { [pkt |-> <<90, 6, 91, 79, 176>>, err |-> "nil"],
      [pkt |-> <<90, 7, 219, 63, 33>>, err |-> "nil"],
      [pkt |-> <<90, 0, 0, 0, 0>>, err |-> "nil"],
      [pkt |-> <<90, 119, 109, 120, 92>>, err |-> "nil"],
      [pkt |-> <<90, 121, 63, 6, 190>>, err |-> "nil"],
      [pkt |-> <<90, 6, 91, 79, 0>>, err |-> "nil"],
      [pkt |-> <<90, 134, 219, 63, 160>>, err |-> "nil"],
      [pkt |-> <<90, 6>>, err |-> "errShortPacket"] }

\* The "position" query values of PUT /move_to/.
Positions ==
    { <<>>, <<"0">>, <<"1">>, <<"2">>, <<"3">>, <<"4">>, <<"5">>, <<"x">>,
      <<"-", "1">>, <<"1", "2">> }

\* The byte written to the Bluetooth move_to characteristic.
Values == {0, 1, 2, 3, 4, 5, 255}

Methods == {"PUT", "GET"}

VARIABLES
    pc,               \* where each task is
    mu,               \* m.mu: the task that holds it, or None
    blocked,          \* the tasks parked in m.mu.Lock
    pkt,              \* the packet the handset pump callback was given
    arg,              \* a move_to handler's request value: the position
                      \* string, or value[0]; zero outside a request
    n,                \* the writes done in a task's burst loop
    resp,             \* what a move_to handler answered
    button,           \* m.button: the handset's button line
    act,              \* m.act: the activity line
    bluetoothBlocked, \* m.bluetoothBlocked
    last,             \* keepAlive's local last
    timer,            \* the time keepAlive's timer is due
    lastCh,           \* the channel m.last
    now,              \* the clock
    bus,              \* the packets written to the controller UART in the
                      \* present tenure of the lock, newest last
    waited,           \* history: the pump's writes while the task was parked
                      \* in Lock for its present request (saturating)
    dropped,          \* history: the pump's last callback returned at TryLock
    sigAt,            \* history: when alive() was last called, or NoTime
    quietSince,       \* history: the timer time of keepAlive's last firing if
                      \* m.last was empty then and alive() has not been called
                      \* and nothing was received since; or NoTime
    gap,              \* history: at keepAlive's last firing, the time since
                      \* quietSince; or NoTime
    ctx,              \* ctx is done: cancel has been called
    position,         \* m.position: <<mantissa, exponent>>
    fed,              \* the watchdog: who updated it last, or "stale" when
                      \* its counter has run since the last update
    stream,           \* uartReader: the bytes the peer has sent, in order
    chunks,           \* uartReader: what the next calls of r.src.Read give
    read,             \* uartReader: r.read
    out,              \* uartReader: what packet has returned
    payload,          \* codec: the bytes given to key or height
    result,           \* codec: what key or height has returned
    mainpc,           \* main: "boot", "run" (init returned nil) or "flatline"
    fatal,            \* main: the n of init's newLedError(n, err), 0 for none
    led,              \* the sequence flash showed last
    wd,               \* the watchdog's counter: the counts since its last
                      \* update, WatchdogTimeout when it has expired
    since,            \* history: for each task that updates the watchdog,
                      \* the counts since it last did (saturating)
    lastP,            \* the handset callback's lastP
    keyLog,           \* history: the handset callback's last call found
                      \* p != lastP and logged the key
    hline             \* the packets written to the handset UART, newest last

vars == <<pc, mu, blocked, pkt, arg, n, resp, button, act, bluetoothBlocked,
          last, timer, lastCh, now, bus, waited, dropped, sigAt, quietSince,
          gap, ctx, position, fed, stream, chunks, read, out, payload,
          result, mainpc, fatal, led, wd, since, lastP,
          keyLog, hline>>

\* The reader under test and the codec under test: used only by the
\* specifications of uartReader.packet, key and height.
rdVars == <<stream, chunks, read, out>>

codecVars == <<payload, result>>

\* What the tasks of the first part of the model leave alone.
\* main's own state.
bootVars == <<mainpc, fatal, led>>

\* The watchdog's counter, and what the callbacks keep and write besides the
\* controller bus.
wdVars == <<wd, since>>

cbVars == <<lastP, keyLog, hline>>

sideVars == <<wdVars, cbVars>>

extVars == <<ctx, position, rdVars, codecVars, bootVars, sideVars>>

newVars == <<extVars, fed>>

pins == <<button, act>>

kaVars == <<last, timer, gap>>

sigVars == <<lastCh, sigAt, quietSince>>

reqVars == <<arg, n, resp>>

\* Nothing returned yet by uartReader.packet, and by key or height.
NoPacket == [done |-> FALSE, pkt |-> <<>>, err |-> "nil"]

NoResult ==
    [done |-> FALSE, s |-> <<>>, pos |-> <<0, 0>>, err |-> "nil", code |-> 0,
     dot |-> FALSE]

\* Where each task is once init has returned nil and main has started the
\* server: the pumps in readUART's loop, keepAlive at its select, the handlers
\* waiting for a request.
Started ==
    [t \in Tasks |->
       CASE t \in {"pump", "ctl"} -> "read"
         [] t = "ka" -> "select"
         [] OTHER -> "idle"]

\* The fields of the mitm value and the lines as main has set them, with the
\* clock at t0 and nothing done yet; keepAlive's first timer is due one
\* interval after the start.
InitFieldsAt(t0, p) ==
    /\ mu = None
    /\ blocked = {}
    /\ pkt = <<>>
    /\ arg = [t \in Cmds |-> IF t = "http" THEN <<>> ELSE 0]
    /\ n = [t \in Bursters |-> 0]
    /\ resp = [t \in Cmds |-> None]
    /\ button = FALSE
    /\ act = FALSE
    /\ bluetoothBlocked = FALSE
    /\ last = 0
    /\ timer = KeepAliveInterval
    /\ lastCh = <<>>
    /\ now = t0
    /\ bus = <<>>
    /\ waited = [t \in Tasks |-> 0]
    /\ dropped = FALSE
    /\ sigAt = NoTime
    /\ quietSince = NoTime
    /\ gap = NoTime
    /\ ctx = FALSE
    /\ position = p
    /\ fed = "stale"

InitFields(t0) == InitFieldsAt(t0, <<0, 0>>)

\* The watchdog just started, no key seen by the handset callback, nothing
\* written to the handset UART.
IdleSide ==
    /\ wd = 0
    /\ since = [u \in Updaters |-> 0]
    /\ lastP = <<>>
    /\ keyLog = FALSE
    /\ hline = <<>>

\* The state after main has built the mitm value, init has returned nil and
\* the goroutines have been started.
InitTasks(t0) ==
    /\ InitFields(t0)
    /\ pc = Started
    /\ mainpc = "run"
    /\ fatal = 0
    /\ led = "off"
    /\ IdleSide

\* No reader under test, and no codec call under test.
IdleReader ==
    /\ stream = <<>>
    /\ chunks = <<>>
    /\ read = <<>>
    /\ out = NoPacket

IdleCodec ==
    /\ payload = <<>>
    /\ result = NoResult

InitAt(t0) == InitTasks(t0) /\ IdleReader /\ IdleCodec

Init == InitAt(0)

\* The program has idled for one interval: keepAlive's first timer is due.
InitLive == InitAt(KeepAliveInterval)

\* ------------------------------------------------------------------ mutex

\* Where a task goes on once Lock has returned.
AfterLock(t) == IF t = "ka" THEN "begin" ELSE "gate"

\* m.mu.Lock() by task t: take the free mutex, or park until an Unlock hands
\* it over.
Lock(t) ==
    IF mu = None
    THEN /\ mu' = t
         /\ pc' = [pc EXCEPT ![t] = AfterLock(t)]
         /\ UNCHANGED blocked
    ELSE /\ blocked' = blocked \cup {t}
         /\ pc' = [pc EXCEPT ![t] = "blocked"]
         /\ UNCHANGED mu

\* An Unlock that frees the mutex and wakes nobody.
UnlockNoHandOver(t, ret) ==
    /\ bus' = <<>>
    /\ mu' = None
    /\ pc' = [pc EXCEPT ![t] = ret]
    /\ UNCHANGED blocked

\* m.mu.Unlock() by task t, which goes on at label ret: a parked task, if
\* there is one, is handed the mutex; the mutex is free only when none is.
Unlock(t, ret) ==
    /\ bus' = <<>>
    /\ IF blocked = {}
       THEN /\ mu' = None
            /\ pc' = [pc EXCEPT ![t] = ret]
            /\ UNCHANGED blocked
       ELSE \E w \in blocked :
            /\ mu' = w
            /\ blocked' = blocked \ {w}
            /\ pc' = [pc EXCEPT ![t] = ret, ![w] = AfterLock(w)]

\* m.controller.Write(p) by task t.
Write(t, p) == bus' = LastN(Append(bus, [w |-> t, f |-> p]), BusWin)

\* --------------------------------------------------------------- watchdog

\* machine.Watchdog.Update() by task u: the counter starts again.
Update(u) ==
    /\ fed' = u
    /\ wd' = 0
    /\ since' = [since EXCEPT ![u] = 0]

\* ----------------------------------------------------------- handset pump

\* A handset pump whose callback goes to TryLock without having updated the
\* watchdog.
PumpReadFeedsLate(r) ==
    /\ pc["pump"] = "read"
    /\ ~ctx
    /\ IF r.err = "nil" /\ key(SubSeq(r.pkt, 2, Len(r.pkt))).err = "nil"
       THEN /\ pkt' = r.pkt
            /\ pc' = [pc EXCEPT !["pump"] = "trylock"]
            /\ dropped' = FALSE
       ELSE UNCHANGED <<pkt, pc, dropped>>
    /\ UNCHANGED <<mu, blocked, reqVars, pins, bluetoothBlocked, kaVars,
                   sigVars, now, bus, waited, extVars, fed>>

\* A handset callback that returns when the key has not changed.
HandsetDoOnChange(r) ==
    IF r.err # "nil"
    THEN UNCHANGED <<pkt, pc, dropped, fed, wdVars>>
    ELSE /\ Update("pump")
         /\ IF /\ key(SubSeq(r.pkt, 2, Len(r.pkt))).err = "nil"
               /\ key(SubSeq(r.pkt, 2, Len(r.pkt))).s # lastP
            THEN /\ pkt' = r.pkt
                 /\ pc' = [pc EXCEPT !["pump"] = "trylock"]
                 /\ dropped' = FALSE
            ELSE UNCHANGED <<pkt, pc, dropped>>

\* What readUART does with r, the packet and error that r.packet returned, in
\* the handset pump: after a framing error the callback is not called; the
\* callback updates the watchdog first, and a key error is logged and the
\* packet is not forwarded; otherwise the pump goes on to TryLock.
HandsetDo(r) ==
    IF r.err # "nil"
    THEN UNCHANGED <<pkt, pc, dropped, fed, wdVars>>
    ELSE /\ Update("pump")
         /\ IF key(SubSeq(r.pkt, 2, Len(r.pkt))).err = "nil"
            THEN /\ pkt' = r.pkt
                 /\ pc' = [pc EXCEPT !["pump"] = "trylock"]
                 /\ dropped' = FALSE
            ELSE UNCHANGED <<pkt, pc, dropped>>

\* The callback's log of the keys, between key and TryLock:
\* if p != lastP { log; lastP = p }.
KeyLog(r) ==
    IF r.err = "nil" /\ key(SubSeq(r.pkt, 2, Len(r.pkt))).err = "nil"
    THEN /\ keyLog' = (key(SubSeq(r.pkt, 2, Len(r.pkt))).s # lastP)
         /\ lastP' = key(SubSeq(r.pkt, 2, Len(r.pkt))).s
    ELSE UNCHANGED <<lastP, keyLog>>

\* One pass of readUART's loop for the handset, with r what r.packet
\* returns, and the callback up to TryLock. ctx is looked at before the read.
\* What the callback logs is not followed here: lastP serves the log alone.
PumpReadOf(r) ==
    /\ pc["pump"] = "read"
    /\ ~ctx
    /\ HandsetDo(r)
    /\ UNCHANGED <<mu, blocked, reqVars, pins, bluetoothBlocked, kaVars,
                   sigVars, now, bus, waited, ctx, position, rdVars,
                   codecVars, bootVars, cbVars>>

\* The same pass with the callback's log of the keys followed.
PumpReadLogOf(r) ==
    /\ pc["pump"] = "read"
    /\ ~ctx
    /\ HandsetDo(r)
    /\ KeyLog(r)
    /\ UNCHANGED <<mu, blocked, reqVars, pins, bluetoothBlocked, kaVars,
                   sigVars, now, bus, waited, ctx, position, rdVars,
                   codecVars, bootVars, hline>>

PumpReadLog == \E r \in HandsetPackets : PumpReadLogOf(r)

PumpRead == \E r \in HandsetPackets : PumpReadOf(r)

\* A TryLock that does not look at the mutex.
PumpTryLockUnchecked ==
    /\ pc["pump"] = "trylock"
    /\ mu' = IF mu = None THEN "pump" ELSE mu
    /\ pc' = [pc EXCEPT !["pump"] = "write"]
    /\ UNCHANGED <<pkt, dropped, bus>>
    /\ UNCHANGED <<blocked, reqVars, pins, bluetoothBlocked, kaVars, sigVars,
                   now, waited>>
    /\ UNCHANGED newVars

\* A pump that waits for the mutex: m.mu.Lock() in place of TryLock.
PumpTryLockWaits ==
    /\ pc["pump"] = "trylock"
    /\ IF mu = None
       THEN /\ mu' = "pump"
            /\ pc' = [pc EXCEPT !["pump"] = "write"]
            /\ UNCHANGED blocked
       ELSE /\ blocked' = blocked \cup {"pump"}
            /\ pc' = [pc EXCEPT !["pump"] = "blocked"]
            /\ UNCHANGED mu
    /\ UNCHANGED <<pkt, dropped, bus>>
    /\ UNCHANGED <<reqVars, pins, bluetoothBlocked, kaVars, sigVars, now,
                   waited>>
    /\ UNCHANGED newVars

\* if !m.mu.TryLock() { return }
PumpTryLock ==
    /\ pc["pump"] = "trylock"
    /\ IF mu = None
       THEN /\ mu' = "pump"
            /\ pc' = [pc EXCEPT !["pump"] = "write"]
            /\ UNCHANGED <<pkt, dropped>>
       ELSE /\ pc' = [pc EXCEPT !["pump"] = "read"]
            /\ pkt' = <<>>
            /\ dropped' = TRUE
            /\ UNCHANGED mu
    /\ UNCHANGED <<blocked, reqVars, pins, bluetoothBlocked, kaVars, sigVars,
                   now, bus, waited>>
    /\ UNCHANGED newVars

\* A pump that calls m.alive() when it has forwarded a packet.
PumpWriteAlive ==
    /\ pc["pump"] = "write"
    /\ Write("pump", pkt)
    /\ pc' = [pc EXCEPT !["pump"] = "unlock"]
    /\ waited' = [t \in Tasks |->
                    IF t \in blocked THEN Min(waited[t] + 1, MaxWaited)
                    ELSE waited[t]]
    /\ lastCh' = IF Len(lastCh) < LastCap THEN Append(lastCh, now) ELSE lastCh
    /\ sigAt' = now
    /\ quietSince' = NoTime
    /\ UNCHANGED <<mu, blocked, pkt, reqVars, pins, bluetoothBlocked, kaVars,
                   now, dropped>>
    /\ UNCHANGED newVars

\* _, err = m.controller.Write(pkt); a write error is logged only.
PumpWrite ==
    /\ pc["pump"] = "write"
    /\ Write("pump", pkt)
    /\ pc' = [pc EXCEPT !["pump"] = "unlock"]
    /\ waited' = [t \in Tasks |->
                    IF t \in blocked THEN Min(waited[t] + 1, MaxWaited)
                    ELSE waited[t]]
    /\ UNCHANGED <<mu, blocked, pkt, reqVars, pins, bluetoothBlocked, kaVars,
                   sigVars, now, dropped>>
    /\ UNCHANGED newVars

\* A pump that returns at once when ctx is done, the mutex still held.
PumpUnlockOrQuit ==
    /\ pc["pump"] = "unlock"
    /\ IF ctx
       THEN /\ pc' = [pc EXCEPT !["pump"] = "done"]
            /\ UNCHANGED <<mu, blocked, bus>>
       ELSE Unlock("pump", "read")
    /\ pkt' = <<>>
    /\ UNCHANGED <<reqVars, pins, bluetoothBlocked, kaVars, sigVars, now,
                   waited, dropped>>
    /\ UNCHANGED newVars

\* time.Sleep(poll), the deferred m.mu.Unlock(), and back to readUART's loop.
PumpUnlock ==
    /\ pc["pump"] = "unlock"
    /\ Unlock("pump", "read")
    /\ pkt' = <<>>
    /\ UNCHANGED <<reqVars, pins, bluetoothBlocked, kaVars, sigVars, now,
                   waited, dropped>>
    /\ UNCHANGED newVars

\* ------------------------------------------------------ activity channel

\* An alive() that queues every time.
aliveQueued == Append(lastCh, now)

\* m.alive(): a send on m.last that never waits; with the channel full the
\* time is not sent.
alive == IF Len(lastCh) < LastCap THEN Append(lastCh, now) ELSE lastCh

\* A task calls m.alive().
Signal ==
    /\ lastCh' = alive
    /\ sigAt' = now
    /\ quietSince' = NoTime

\* ------------------------------------------------------ PUT /move_to/ (HTTP)

\* The handler's method check and m.mu.Lock().
MoveToLock ==
    /\ pc["http"] = "idle"
    /\ \E method \in Methods :
         IF method # "PUT"
         THEN UNCHANGED <<pc, mu, blocked>>
         ELSE Lock("http")
    /\ UNCHANGED <<pkt, reqVars, pins, bluetoothBlocked, kaVars, sigVars, now,
                   bus, waited, dropped>>
    /\ UNCHANGED newVars

\* A gate whose range check lets 5 through and refuses 4.
MoveToGateOffByOne ==
    /\ pc["http"] = "gate"
    /\ \E q \in Positions :
         /\ arg' = [arg EXCEPT !["http"] = q]
         /\ IF button
            THEN /\ resp' = [resp EXCEPT !["http"] = "empty"]
                 /\ pc' = [pc EXCEPT !["http"] = "ret"]
                 /\ UNCHANGED <<act, n>>
            ELSE IF Atoi(q).err \/ Atoi(q).val < 1 \/ Atoi(q).val = 4
                    \/ 5 < Atoi(q).val
            THEN /\ resp' = [resp EXCEPT !["http"] = "400"]
                 /\ pc' = [pc EXCEPT !["http"] = "ret"]
                 /\ UNCHANGED <<act, n>>
            ELSE /\ act' = TRUE
                 /\ n' = [n EXCEPT !["http"] = 0]
                 /\ pc' = [pc EXCEPT !["http"] = "write"]
                 /\ UNCHANGED resp
    /\ UNCHANGED <<mu, blocked, pkt, button, bluetoothBlocked, kaVars, sigVars,
                   now, bus, waited, dropped>>
    /\ UNCHANGED newVars

\* With the lock held: the button check, strconv.Atoi of the position, the
\* range check, and m.act.High() before the burst.
MoveToGate ==
    /\ pc["http"] = "gate"
    /\ \E q \in Positions :
         /\ arg' = [arg EXCEPT !["http"] = q]
         /\ IF button
            THEN /\ resp' = [resp EXCEPT !["http"] = "empty"]
                 /\ pc' = [pc EXCEPT !["http"] = "ret"]
                 /\ UNCHANGED <<act, n>>
            ELSE IF Atoi(q).err \/ Atoi(q).val < 1 \/ 4 < Atoi(q).val
            THEN /\ resp' = [resp EXCEPT !["http"] = "400"]
                 /\ pc' = [pc EXCEPT !["http"] = "ret"]
                 /\ UNCHANGED <<act, n>>
            ELSE /\ act' = TRUE
                 /\ n' = [n EXCEPT !["http"] = 0]
                 /\ pc' = [pc EXCEPT !["http"] = "write"]
                 /\ UNCHANGED resp
    /\ UNCHANGED <<mu, blocked, pkt, button, bluetoothBlocked, kaVars, sigVars,
                   now, bus, waited, dropped>>
    /\ UNCHANGED newVars

\* One pass of "for range 5": the write, the sleep, and the error return.
MoveToWrite ==
    /\ pc["http"] = "write"
    /\ Write("http", CmdPkt(Atoi(arg["http"]).val))
    /\ n' = [n EXCEPT !["http"] = @ + 1]
    /\ \E err \in BOOLEAN :
         IF err
         THEN /\ resp' = [resp EXCEPT !["http"] = "500"]
              /\ pc' = [pc EXCEPT !["http"] = "ret"]
         ELSE /\ pc' = [pc EXCEPT !["http"] =
                          IF n["http"] + 1 = BurstLen THEN "alive" ELSE "write"]
              /\ UNCHANGED resp
    /\ UNCHANGED <<mu, blocked, pkt, arg, pins, bluetoothBlocked, kaVars,
                   sigVars, now, waited, dropped>>
    /\ UNCHANGED newVars

\* After the burst: m.alive(), m.act.Low() and the "ok" answer.
MoveToAlive ==
    /\ pc["http"] = "alive"
    /\ Signal
    /\ act' = FALSE
    /\ resp' = [resp EXCEPT !["http"] = "ok"]
    /\ pc' = [pc EXCEPT !["http"] = "ret"]
    /\ UNCHANGED <<mu, blocked, pkt, arg, n, button, bluetoothBlocked, kaVars,
                   now, bus, waited, dropped>>
    /\ UNCHANGED newVars

\* The handler returns: the deferred m.mu.Unlock().
MoveToReturn ==
    /\ pc["http"] = "ret"
    /\ Unlock("http", "idle")
    /\ arg' = [arg EXCEPT !["http"] = <<>>]
    /\ resp' = [resp EXCEPT !["http"] = None]
    /\ n' = [n EXCEPT !["http"] = 0]
    /\ waited' = [waited EXCEPT !["http"] = 0]
    /\ UNCHANGED <<pkt, pins, bluetoothBlocked, kaVars, sigVars, now, dropped>>
    /\ UNCHANGED newVars

\* ------------------------------------------- Bluetooth move_to WriteEvent

\* A WriteEvent that does not look at m.bluetoothBlocked.
WriteEventLockUnchecked ==
    /\ pc["bt"] = "idle"
    /\ \E offset \in {0, 1}, len \in {1, 2} :
         IF offset # 0 \/ len # 1
         THEN UNCHANGED <<pc, mu, blocked>>
         ELSE Lock("bt")
    /\ UNCHANGED <<pkt, reqVars, pins, bluetoothBlocked, kaVars, sigVars, now,
                   bus, waited, dropped>>
    /\ UNCHANGED newVars

\* The checks before the lock (control disabled, offset, length) and
\* m.mu.Lock().
WriteEventLock ==
    /\ pc["bt"] = "idle"
    /\ \E offset \in {0, 1}, len \in {1, 2} :
         IF bluetoothBlocked \/ offset # 0 \/ len # 1
         THEN UNCHANGED <<pc, mu, blocked>>
         ELSE Lock("bt")
    /\ UNCHANGED <<pkt, reqVars, pins, bluetoothBlocked, kaVars, sigVars, now,
                   bus, waited, dropped>>
    /\ UNCHANGED newVars

\* A gate whose range check has no upper bound.
WriteEventGateNoUpper ==
    /\ pc["bt"] = "gate"
    /\ \E v \in Values :
         /\ arg' = [arg EXCEPT !["bt"] = v]
         /\ IF button
            THEN /\ resp' = [resp EXCEPT !["bt"] = "empty"]
                 /\ pc' = [pc EXCEPT !["bt"] = "ret"]
                 /\ UNCHANGED <<act, n>>
            ELSE IF v < 1
            THEN /\ resp' = [resp EXCEPT !["bt"] = "invalid"]
                 /\ pc' = [pc EXCEPT !["bt"] = "ret"]
                 /\ UNCHANGED <<act, n>>
            ELSE /\ act' = TRUE
                 /\ n' = [n EXCEPT !["bt"] = 0]
                 /\ pc' = [pc EXCEPT !["bt"] = "write"]
                 /\ UNCHANGED resp
    /\ UNCHANGED <<mu, blocked, pkt, button, bluetoothBlocked, kaVars, sigVars,
                   now, bus, waited, dropped>>
    /\ UNCHANGED newVars

\* With the lock held: the button check, the range check of value[0], and
\* m.act.High() before the burst.
WriteEventGate ==
    /\ pc["bt"] = "gate"
    /\ \E v \in Values :
         /\ arg' = [arg EXCEPT !["bt"] = v]
         /\ IF button
            THEN /\ resp' = [resp EXCEPT !["bt"] = "empty"]
                 /\ pc' = [pc EXCEPT !["bt"] = "ret"]
                 /\ UNCHANGED <<act, n>>
            ELSE IF v < 1 \/ 4 < v
            THEN /\ resp' = [resp EXCEPT !["bt"] = "invalid"]
                 /\ pc' = [pc EXCEPT !["bt"] = "ret"]
                 /\ UNCHANGED <<act, n>>
            ELSE /\ act' = TRUE
                 /\ n' = [n EXCEPT !["bt"] = 0]
                 /\ pc' = [pc EXCEPT !["bt"] = "write"]
                 /\ UNCHANGED resp
    /\ UNCHANGED <<mu, blocked, pkt, button, bluetoothBlocked, kaVars, sigVars,
                   now, bus, waited, dropped>>
    /\ UNCHANGED newVars

WriteEventWrite ==
    /\ pc["bt"] = "write"
    /\ Write("bt", CmdPkt(arg["bt"]))
    /\ n' = [n EXCEPT !["bt"] = @ + 1]
    /\ \E err \in BOOLEAN :
         IF err
         THEN /\ resp' = [resp EXCEPT !["bt"] = "err"]
              /\ pc' = [pc EXCEPT !["bt"] = "ret"]
         ELSE /\ pc' = [pc EXCEPT !["bt"] =
                          IF n["bt"] + 1 = BurstLen THEN "alive" ELSE "write"]
              /\ UNCHANGED resp
    /\ UNCHANGED <<mu, blocked, pkt, arg, pins, bluetoothBlocked, kaVars,
                   sigVars, now, waited, dropped>>
    /\ UNCHANGED newVars

WriteEventAlive ==
    /\ pc["bt"] = "alive"
    /\ Signal
    /\ act' = FALSE
    /\ resp' = [resp EXCEPT !["bt"] = "ok"]
    /\ pc' = [pc EXCEPT !["bt"] = "ret"]
    /\ UNCHANGED <<mu, blocked, pkt, arg, n, button, bluetoothBlocked, kaVars,
                   now, bus, waited, dropped>>
    /\ UNCHANGED newVars

WriteEventReturn ==
    /\ pc["bt"] = "ret"
    /\ Unlock("bt", "idle")
    /\ arg' = [arg EXCEPT !["bt"] = 0]
    /\ resp' = [resp EXCEPT !["bt"] = None]
    /\ n' = [n EXCEPT !["bt"] = 0]
    /\ waited' = [waited EXCEPT !["bt"] = 0]
    /\ UNCHANGED <<pkt, pins, bluetoothBlocked, kaVars, sigVars, now, dropped>>
    /\ UNCHANGED newVars

\* ------------------------------------------------------------- PUT /bt/

\* The handler of /bt/: the method check and the switch on "allow".
BtAllow ==
    /\ \E method \in Methods, allow \in {"true", "false", "x"} :
         bluetoothBlocked' = CASE method # "PUT" -> bluetoothBlocked
                               [] allow = "true" -> FALSE
                               [] allow = "false" -> TRUE
                               [] OTHER -> bluetoothBlocked
    /\ UNCHANGED <<pc, mu, blocked, pkt, reqVars, pins, kaVars, sigVars, now,
                   bus, waited, dropped>>
    /\ UNCHANGED newVars

\* ------------------------------------------------------ button interrupt

\* The handset's button line toggles and the pin interrupt, which main sets
\* once init has returned nil, copies it to the activity line:
\* m.act.Set(pin.Get()).
ButtonInterrupt ==
    /\ button' = ~button
    /\ act' = IF mainpc = "run" THEN button' ELSE act
    /\ UNCHANGED <<pc, mu, blocked, pkt, reqVars, bluetoothBlocked, kaVars,
                   sigVars, now, bus, waited, dropped>>
    /\ UNCHANGED newVars

\* -------------------------------------------------------------- keepAlive

\* A timer that is set one interval from the time it is made.
NewTimerFromNow(l) == now + KeepAliveInterval

\* time.NewTimer(last.Add(keepAliveInterval).Sub(time.Now())) with last = l:
\* the time the timer is due.
NewTimer(l) == Max(l + KeepAliveInterval, now)

\* select: case last = <-timer.C, then m.mu.Lock(). The time received is the
\* time the timer fired, which is not before it was due.
KeepAliveTimer ==
    /\ pc["ka"] = "select"
    /\ now >= timer
    /\ \E tf \in timer..now :
         /\ last' = tf
         /\ gap' = IF quietSince # NoTime THEN tf - quietSince ELSE NoTime
         /\ quietSince' = IF lastCh = <<>> THEN tf ELSE NoTime
    /\ Lock("ka")
    /\ UNCHANGED <<pkt, reqVars, pins, bluetoothBlocked, timer, lastCh, sigAt,
                   now, bus, waited, dropped>>
    /\ UNCHANGED newVars

\* select: case last = <-m.last; the timer is stopped and the loop makes the
\* next one.
KeepAliveLast ==
    /\ pc["ka"] = "select"
    /\ lastCh # <<>>
    /\ last' = Head(lastCh)
    /\ lastCh' = Tail(lastCh)
    /\ timer' = NewTimer(Head(lastCh))
    /\ quietSince' = NoTime
    /\ UNCHANGED <<pc, mu, blocked, pkt, reqVars, pins, bluetoothBlocked, gap,
                   sigAt, now, bus, waited, dropped>>
    /\ UNCHANGED newVars

\* With the lock held: m.act.High() and the sleep before the burst.
KeepAliveBegin ==
    /\ pc["ka"] = "begin"
    /\ act' = TRUE
    /\ n' = [n EXCEPT !["ka"] = 0]
    /\ pc' = [pc EXCEPT !["ka"] = "write"]
    /\ UNCHANGED <<mu, blocked, pkt, arg, resp, button, bluetoothBlocked,
                   kaVars, sigVars, now, bus, waited, dropped>>
    /\ UNCHANGED newVars

\* One pass of "for range 5": the write, the sleep, and the error return
\* from the function literal.
KeepAliveWrite ==
    /\ pc["ka"] = "write"
    /\ Write("ka", KeepAlivePkt)
    /\ n' = [n EXCEPT !["ka"] = @ + 1]
    /\ \E err \in BOOLEAN :
         pc' = [pc EXCEPT !["ka"] =
                  IF err THEN "fail"
                  ELSE IF n["ka"] + 1 = BurstLen THEN "end" ELSE "write"]
    /\ UNCHANGED <<mu, blocked, pkt, arg, resp, pins, bluetoothBlocked, kaVars,
                   sigVars, now, waited, dropped>>
    /\ UNCHANGED newVars

\* A keepAlive whose function literal returns on a write error with the mutex
\* held.
KeepAliveFailKeepsLock ==
    /\ pc["ka"] = "fail"
    /\ pc' = [pc EXCEPT !["ka"] = "select"]
    /\ timer' = NewTimer(last)
    /\ n' = [n EXCEPT !["ka"] = 0]
    /\ waited' = [waited EXCEPT !["ka"] = 0]
    /\ UNCHANGED <<mu, blocked, bus, pkt, arg, resp, pins, bluetoothBlocked,
                   last, gap, sigVars, now, dropped>>
    /\ UNCHANGED newVars

\* After a write error: the deferred Unlock runs, m.act.Low() does not, and
\* the loop makes the next timer.
KeepAliveFail ==
    /\ pc["ka"] = "fail"
    /\ Unlock("ka", "select")
    /\ timer' = NewTimer(last)
    /\ n' = [n EXCEPT !["ka"] = 0]
    /\ waited' = [waited EXCEPT !["ka"] = 0]
    /\ UNCHANGED <<pkt, arg, resp, pins, bluetoothBlocked, last, gap, sigVars,
                   now, dropped>>
    /\ UNCHANGED newVars

\* After the burst: m.act.Low(), the deferred Unlock, and the next timer.
KeepAliveEnd ==
    /\ pc["ka"] = "end"
    /\ act' = FALSE
    /\ Unlock("ka", "select")
    /\ timer' = NewTimer(last)
    /\ n' = [n EXCEPT !["ka"] = 0]
    /\ waited' = [waited EXCEPT !["ka"] = 0]
    /\ UNCHANGED <<pkt, arg, resp, button, bluetoothBlocked, last, gap,
                   sigVars, now, dropped>>
    /\ UNCHANGED newVars

\* -------------------------------------------------------- controller pump

\* A controller pump that stores the position that comes with a checksum
\* mismatch.
CtlReadKeepsMismatch(r) ==
    /\ pc["ctl"] = "read"
    /\ ~ctx
    /\ IF r.err # "nil"
       THEN UNCHANGED <<fed, wdVars, position>>
       ELSE /\ Update("ctl")
            /\ position' =
                 IF height(SubSeq(r.pkt, 2, Len(r.pkt))).err
                      \in {"nil", "errChecksumMismatch"}
                 THEN height(SubSeq(r.pkt, 2, Len(r.pkt))).pos
                 ELSE position
    /\ UNCHANGED <<pc, mu, blocked, pkt, reqVars, pins, bluetoothBlocked,
                   kaVars, sigVars, now, bus, waited, dropped, ctx, rdVars,
                   codecVars, bootVars, cbVars>>

\* What readUART does with r, the packet and error that r.packet returned, in
\* the controller pump: after a framing error the callback is not called; the
\* callback updates the watchdog, then height decodes the packet, and the
\* position is stored only when height has returned no error.
CtlDo(r) ==
    IF r.err # "nil"
    THEN UNCHANGED <<fed, wdVars, position>>
    ELSE /\ Update("ctl")
         /\ position' =
              IF height(SubSeq(r.pkt, 2, Len(r.pkt))).err = "nil"
              THEN height(SubSeq(r.pkt, 2, Len(r.pkt))).pos
              ELSE position

\* One pass of readUART's loop for the controller, with r what r.packet
\* returns, and the whole callback.
CtlReadOf(r) ==
    /\ pc["ctl"] = "read"
    /\ ~ctx
    /\ CtlDo(r)
    /\ UNCHANGED <<pc, mu, blocked, pkt, reqVars, pins, bluetoothBlocked,
                   kaVars, sigVars, now, bus, waited, dropped, ctx, rdVars,
                   codecVars, bootVars, cbVars>>

CtlRead == \E r \in ControllerPackets : CtlReadOf(r)

\* One pass of readUART's loop for the controller in the program that passes
\* the controller's packets on to the handset, with r what r.packet returns,
\* and the whole callback: the watchdog is updated and height decodes the
\* packet; on an error other than errNoHeight the callback logs and returns;
\* otherwise the position is stored, unless the error is errNoHeight, and the
\* packet is written to the handset UART.
CtlThroughOf(r) ==
    /\ pc["ctl"] = "read"
    /\ ~ctx
    /\ IF r.err # "nil"
       THEN UNCHANGED <<fed, wdVars, position, hline>>
       ELSE /\ Update("ctl")
            /\ IF height(SubSeq(r.pkt, 2, Len(r.pkt))).err
                    \notin {"nil", "errNoHeight"}
               THEN UNCHANGED <<position, hline>>
               ELSE /\ position' =
                         IF height(SubSeq(r.pkt, 2, Len(r.pkt))).err = "nil"
                         THEN height(SubSeq(r.pkt, 2, Len(r.pkt))).pos
                         ELSE position
                    /\ hline' = LastN(Append(hline, r.pkt), HandsetWin)
    /\ UNCHANGED <<pc, mu, blocked, pkt, reqVars, pins, bluetoothBlocked,
                   kaVars, sigVars, now, bus, waited, dropped, ctx, rdVars,
                   codecVars, bootVars, lastP, keyLog>>

CtlThrough == \E r \in ControllerPackets : CtlThroughOf(r)

\* ------------------------------------------------------------ uartReader

\* bytes.IndexByte(src[1:], delim), counted from the start of src, or
\* len(src) when the delimiter is not found: the number of bytes of src
\* before the next delimiter.
NextDelim(src, delim) ==
    IF \E i \in 2..Len(src) : src[i] = delim
    THEN (CHOOSE i \in 2..Len(src) :
            /\ src[i] = delim
            /\ \A j \in 2..(i - 1) : src[j] # delim) - 1
    ELSE Len(src)

RECURSIVE SumBytes(_)
\* The sum of the bytes of s as a byte.
SumBytes(s) == IF s = <<>> THEN 0 ELSE (Head(s) + SumBytes(Tail(s))) % 256

\* A nextPacket that keeps what follows an over-long packet.
nextPacketKeepsRest(src, delim, k) ==
    IF Len(src) < k
    THEN [pkt |-> <<>>, rest |-> src, err |-> "nil"]
    ELSE IF NextDelim(src, delim) > k
    THEN [pkt |-> SubSeq(src, 1, k),
          rest |-> SubSeq(src, k + 1, Len(src)),
          err |-> IF SumBytes(SubSeq(src, 1, k - 1)) # src[k]
                  THEN "errLongPacket"
                  ELSE "nil"]
    ELSE [pkt |-> SubSeq(src, 1, NextDelim(src, delim)),
          rest |-> SubSeq(src, NextDelim(src, delim) + 1, Len(src)),
          err |-> IF NextDelim(src, delim) < k
                  THEN "errShortPacket"
                  ELSE "nil"]

\* A nextPacket that sums an over-long packet without its first byte.
nextPacketPayloadSum(src, delim, k) ==
    IF Len(src) < k
    THEN [pkt |-> <<>>, rest |-> src, err |-> "nil"]
    ELSE IF NextDelim(src, delim) > k
    THEN [pkt |-> SubSeq(src, 1, k),
          rest |-> <<>>,
          err |-> IF SumBytes(SubSeq(src, 2, k - 1)) # src[k]
                  THEN "errLongPacket"
                  ELSE "nil"]
    ELSE [pkt |-> SubSeq(src, 1, NextDelim(src, delim)),
          rest |-> SubSeq(src, NextDelim(src, delim) + 1, Len(src)),
          err |-> IF NextDelim(src, delim) < k
                  THEN "errShortPacket"
                  ELSE "nil"]

\* nextPacket(dst, src, delim, k): the packet, what remains of src, and the
\* error.
nextPacket(src, delim, k) ==
    IF Len(src) < k
    THEN [pkt |-> <<>>, rest |-> src, err |-> "nil"]
    ELSE IF NextDelim(src, delim) > k
    THEN [pkt |-> SubSeq(src, 1, k),
          rest |-> <<>>,
          err |-> IF SumBytes(SubSeq(src, 1, k - 1)) # src[k]
                  THEN "errLongPacket"
                  ELSE "nil"]
    ELSE [pkt |-> SubSeq(src, 1, NextDelim(src, delim)),
          rest |-> SubSeq(src, NextDelim(src, delim) + 1, Len(src)),
          err |-> IF NextDelim(src, delim) < k
                  THEN "errShortPacket"
                  ELSE "nil"]

\* An r.read that takes the bytes of every r.src.Read.
AppendedAlways(rd, c) == rd \o c

\* r.read after the bytes c of one r.src.Read: they are appended when r.read
\* is not empty or c begins with the start byte, and are dropped otherwise.
Appended(rd, c) ==
    IF (rd = <<>> /\ c[1] = ReaderStart) \/ rd # <<>>
    THEN rd \o c
    ELSE rd

\* r.read with the bytes of the next r.src.Read.
Buffered == Appended(read, Head(chunks))

\* One pass of packet's loop, in the handset pump, with bytes buffered: ctx is
\* looked at, r.src.Read gives the next chunk; packet goes round again while
\* r.read is shorter than a packet and otherwise returns what nextPacket makes
\* of r.read.
ReaderRead ==
    /\ pc["pump"] = "read"
    /\ ~out.done
    /\ ~ctx
    /\ chunks # <<>>
    /\ chunks' = Tail(chunks)
    /\ IF Len(Buffered) < ReaderLen
       THEN /\ read' = Buffered
            /\ UNCHANGED out
       ELSE /\ read' = nextPacket(Buffered, ReaderStart, ReaderLen).rest
            /\ out' = [done |-> TRUE,
                       pkt |-> nextPacket(Buffered, ReaderStart, ReaderLen).pkt,
                       err |-> nextPacket(Buffered, ReaderStart, ReaderLen).err]
    /\ UNCHANGED <<pc, mu, blocked, pkt, reqVars, pins, bluetoothBlocked,
                   kaVars, sigVars, now, bus, waited, dropped, ctx, position,
                   fed, stream, codecVars, bootVars, sideVars>>

\* r.src.Read returns an error: packet returns what it has read so far with
\* the error, and r.read is emptied.
ReaderReadError ==
    /\ pc["pump"] = "read"
    /\ ~out.done
    /\ ~ctx
    /\ chunks # <<>>
    /\ read' = <<>>
    /\ out' = [done |-> TRUE, pkt |-> read, err |-> "errRead"]
    /\ UNCHANGED <<pc, mu, blocked, pkt, reqVars, pins, bluetoothBlocked,
                   kaVars, sigVars, now, bus, waited, dropped, ctx, position,
                   fed, stream, chunks, codecVars, bootVars, sideVars>>

\* A packet that empties r.read when it returns ctx.Err().
ReaderCancelledResets ==
    /\ pc["pump"] = "read"
    /\ ~out.done
    /\ ctx
    /\ read' = <<>>
    /\ out' = [done |-> TRUE, pkt |-> <<>>, err |-> "context.Canceled"]
    /\ UNCHANGED <<pc, mu, blocked, pkt, reqVars, pins, bluetoothBlocked,
                   kaVars, sigVars, now, bus, waited, dropped, ctx, position,
                   fed, stream, chunks, codecVars, bootVars, sideVars>>

\* packet finds ctx done at the top of its loop and returns nil, ctx.Err();
\* r.read is left as it is.
ReaderCancelled ==
    /\ pc["pump"] = "read"
    /\ ~out.done
    /\ ctx
    /\ out' = [done |-> TRUE, pkt |-> <<>>, err |-> "context.Canceled"]
    /\ UNCHANGED <<pc, mu, blocked, pkt, reqVars, pins, bluetoothBlocked,
                   kaVars, sigVars, now, bus, waited, dropped, ctx, position,
                   fed, stream, chunks, read, codecVars, bootVars, sideVars>>

\* A readUART that returns on any error of packet.
ReadUARTStopsOnError ==
    /\ pc["pump"] = "read"
    /\ out.done
    /\ IF out.err # "nil"
       THEN /\ pc' = [pc EXCEPT !["pump"] = "done"]
            /\ UNCHANGED <<pkt, dropped, fed, wdVars, out>>
       ELSE /\ HandsetDo([pkt |-> out.pkt, err |-> out.err])
            /\ out' = NoPacket
    /\ UNCHANGED <<mu, blocked, reqVars, pins, bluetoothBlocked, kaVars,
                   sigVars, now, bus, waited, ctx, position, stream, chunks,
                   read, codecVars, bootVars, cbVars>>

\* readUART with what the handset's packet has returned: it returns on
\* context.Canceled; any other error is logged and the loop goes on; a packet
\* is given to the callback. The next pass calls packet again.
ReadUART ==
    /\ pc["pump"] = "read"
    /\ out.done
    /\ IF out.err = "context.Canceled"
       THEN /\ pc' = [pc EXCEPT !["pump"] = "done"]
            /\ UNCHANGED <<pkt, dropped, fed, wdVars, out>>
       ELSE /\ HandsetDo([pkt |-> out.pkt, err |-> out.err])
            /\ out' = NoPacket
    /\ UNCHANGED <<mu, blocked, reqVars, pins, bluetoothBlocked, kaVars,
                   sigVars, now, bus, waited, ctx, position, stream, chunks,
                   read, codecVars, bootVars, cbVars>>

\* The start byte of the controller's line: readUART(ctx, "controller", 0x5a,
\* 5, ...).
CtlStart == 90

\* The reader under test is that of the pump t: the stream is of its line.
OnLine(t) ==
    /\ stream # <<>>
    /\ stream[1] = IF t = "pump" THEN ReaderStart ELSE CtlStart

\* r.read of the controller's reader with the bytes of the next r.src.Read.
CtlBuffered ==
    IF (read = <<>> /\ Head(chunks)[1] = CtlStart) \/ read # <<>>
    THEN read \o Head(chunks)
    ELSE read

\* One pass of packet's loop in the controller pump, as ReaderRead is in the
\* handset pump.
CtlPacket ==
    /\ OnLine("ctl")
    /\ pc["ctl"] = "read"
    /\ ~out.done
    /\ ~ctx
    /\ chunks # <<>>
    /\ chunks' = Tail(chunks)
    /\ IF Len(CtlBuffered) < ReaderLen
       THEN /\ read' = CtlBuffered
            /\ UNCHANGED out
       ELSE /\ read' = nextPacket(CtlBuffered, CtlStart, ReaderLen).rest
            /\ out' = [done |-> TRUE,
                       pkt |-> nextPacket(CtlBuffered, CtlStart, ReaderLen).pkt,
                       err |-> nextPacket(CtlBuffered, CtlStart, ReaderLen).err]
    /\ UNCHANGED <<pc, mu, blocked, pkt, reqVars, pins, bluetoothBlocked,
                   kaVars, sigVars, now, bus, waited, dropped, ctx, position,
                   fed, stream, codecVars, bootVars, sideVars>>

\* readUART with what the controller's packet has returned.
CtlReadUART ==
    /\ OnLine("ctl")
    /\ pc["ctl"] = "read"
    /\ out.done
    /\ IF out.err = "context.Canceled"
       THEN /\ pc' = [pc EXCEPT !["ctl"] = "done"]
            /\ UNCHANGED <<fed, wdVars, position, out>>
       ELSE /\ CtlDo([pkt |-> out.pkt, err |-> out.err])
            /\ out' = NoPacket
            /\ UNCHANGED pc
    /\ UNCHANGED <<mu, blocked, pkt, reqVars, pins, bluetoothBlocked, kaVars,
                   sigVars, now, bus, waited, dropped, ctx, stream, chunks,
                   read, codecVars, bootVars, cbVars>>

\* ------------------------------------------------------------ codec calls

\* p, err := key(payload)
KeyCall ==
    /\ ~result.done
    /\ Len(payload) # 0
    /\ result' = [done |-> TRUE,
                  s |-> key(payload).s,
                  pos |-> <<0, 0>>,
                  err |-> key(payload).err,
                  code |-> 0,
                  dot |-> FALSE]
    /\ UNCHANGED <<pc, mu, blocked, pkt, reqVars, pins, bluetoothBlocked,
                   kaVars, sigVars, now, bus, waited, dropped, ctx, position,
                   fed, rdVars, payload, bootVars, sideVars>>

\* The value of result after p, err := height(q).
Returned(q) ==
    [done |-> TRUE,
     s |-> <<>>,
     pos |-> height(q).pos,
     err |-> height(q).err,
     code |-> height(q).code,
     dot |-> FALSE]

\* p, err := height(payload)
HeightCall ==
    /\ ~result.done
    /\ Len(payload) # 0
    /\ result' = Returned(payload)
    /\ UNCHANGED <<pc, mu, blocked, pkt, reqVars, pins, bluetoothBlocked,
                   kaVars, sigVars, now, bus, waited, dropped, ctx, position,
                   fed, rdVars, payload, bootVars, sideVars>>

\* A further call of height, on a blank or a reset display.
HeightAgain ==
    /\ result.done
    /\ \E q \in Distinguished :
          /\ payload' = q
          /\ result' = Returned(q)
    /\ UNCHANGED <<pc, mu, blocked, pkt, reqVars, pins, bluetoothBlocked,
                   kaVars, sigVars, now, bus, waited, dropped, ctx, position,
                   fed, rdVars, bootVars, sideVars>>

\* d, ok := digit(payload[0]); the character is kept in code.
DigitCall ==
    /\ ~result.done
    /\ Len(payload) = 1
    /\ result' = [done |-> TRUE,
                  s |-> <<>>,
                  pos |-> <<0, 0>>,
                  err |-> "nil",
                  code |-> digit(payload[1]).digit,
                  dot |-> digit(payload[1]).dot]
    /\ UNCHANGED <<pc, mu, blocked, pkt, reqVars, pins, bluetoothBlocked,
                   kaVars, sigVars, now, bus, waited, dropped, ctx, position,
                   fed, rdVars, payload, bootVars, sideVars>>

\* The body written by fmt.Fprintf(w, "h=%s", p).
HeightBody(p) == <<"h", "=">> \o String(p)

\* The /height/ handler: 405 for anything but GET, "none" while no height has
\* been stored, and h= followed by the position's text otherwise.
HeightGet ==
    /\ ~result.done
    /\ \E method \in Methods :
         result' = IF method # "GET"
                   THEN [NoResult EXCEPT !.done = TRUE, !.code = 405]
                   ELSE [done |-> TRUE,
                         s |-> IF position[1] = 0
                               THEN <<"n", "o", "n", "e">>
                               ELSE HeightBody(position),
                         pos |-> position,
                         err |-> "nil",
                         code |-> 200,
                         dot |-> FALSE]
    /\ UNCHANGED <<pc, mu, blocked, pkt, reqVars, pins, bluetoothBlocked,
                   kaVars, sigVars, now, bus, waited, dropped, ctx, position,
                   fed, rdVars, payload, bootVars, sideVars>>

\* The length of the height characteristic's value, and a byte of it that
\* clear has zeroed and copy has not reached.
ValueLen == 4

Nul == "NUL"

\* clear(value); copy(value, s) for a value of ValueLen bytes.
Copied(s) ==
    [i \in 1..ValueLen |-> IF i <= Len(s) THEN s[i] ELSE Nul]

\* The offsets and lengths a Bluetooth client may read with.
Offsets == {0, 1}

ValueLens == {ValueLen, 2}

\* The height characteristic's ReadEvent: nothing while Bluetooth control is
\* disabled or for a read that is not the whole value, the position's text
\* copied into the value otherwise.
HeightRead ==
    /\ ~result.done
    /\ \E offset \in Offsets, len \in ValueLens :
         result' = IF bluetoothBlocked \/ offset # 0 \/ len # ValueLen
                   THEN [NoResult EXCEPT !.done = TRUE, !.err = "unserved"]
                   ELSE [done |-> TRUE,
                         s |-> Copied(String(position)),
                         pos |-> position,
                         err |-> "nil",
                         code |-> 0,
                         dot |-> FALSE]
    /\ UNCHANGED <<pc, mu, blocked, pkt, reqVars, pins, bluetoothBlocked,
                   kaVars, sigVars, now, bus, waited, dropped, ctx, position,
                   fed, rdVars, payload, bootVars, sideVars>>

\* ----------------------------------------------------------- cancellation

\* What no step of cancellation touches.
runVars ==
    <<mu, blocked, pkt, reqVars, pins, bluetoothBlocked, kaVars, sigVars, now,
      bus, waited, dropped, position, fed, rdVars, codecVars, bootVars, sideVars>>

\* cancel() is called.
Cancel ==
    /\ ~ctx
    /\ ctx' = TRUE
    /\ UNCHANGED <<pc, runVars>>

\* readUART for the handset returns: ctx is done at the top of its loop or in
\* r.packet.
PumpExit ==
    /\ pc["pump"] = "read"
    /\ ctx
    /\ pc' = [pc EXCEPT !["pump"] = "done"]
    /\ UNCHANGED <<ctx, runVars>>

\* readUART for the controller returns.
CtlExit ==
    /\ pc["ctl"] = "read"
    /\ ctx
    /\ pc' = [pc EXCEPT !["ctl"] = "done"]
    /\ UNCHANGED <<ctx, runVars>>

\* keepAlive's select: case <-ctx.Done(); the timer is stopped and keepAlive
\* returns.
KeepAliveDone ==
    /\ pc["ka"] = "select"
    /\ ctx
    /\ pc' = [pc EXCEPT !["ka"] = "done"]
    /\ UNCHANGED <<ctx, runVars>>

\* --------------------------------------------------------------- watchdog

\* The watchdog's counter runs.
WatchdogCount ==
    /\ fed # "stale"
    /\ fed' = "stale"
    /\ UNCHANGED <<pc, mu, blocked, pkt, reqVars, pins, bluetoothBlocked,
                   kaVars, sigVars, now, bus, waited, dropped, extVars>>

\* One unit of the watchdog's time passes without an update: the counter
\* runs, and at WatchdogTimeout the watchdog has expired and resets the chip.
WatchdogTick ==
    /\ wd < WatchdogTimeout
    /\ wd' = wd + 1
    /\ since' = [u \in Updaters |-> Min(since[u] + 1, WatchdogTimeout)]
    /\ fed' = "stale"
    /\ UNCHANGED <<pc, mu, blocked, pkt, reqVars, pins, bluetoothBlocked,
                   kaVars, sigVars, now, bus, waited, dropped, ctx, position,
                   rdVars, codecVars, bootVars, cbVars>>

\* A heartbeat loop that flashes the LED and leaves the watchdog alone.
HeartbeatSilent ==
    /\ mainpc = "run"
    /\ ~ctx
    /\ since' = [since EXCEPT !["main"] = 0]
    /\ led' = "normal"
    /\ UNCHANGED <<pc, mu, blocked, pkt, reqVars, pins, bluetoothBlocked,
                   kaVars, sigVars, now, bus, waited, dropped, ctx, position,
                   rdVars, codecVars, mainpc, fatal, cbVars, fed, wd>>

\* One pass of main's heartbeat loop: ctx is looked at, the watchdog is
\* updated and the LED is flashed with normalOperation.
Heartbeat ==
    /\ mainpc = "run"
    /\ ~ctx
    /\ Update("main")
    /\ led' = "normal"
    /\ UNCHANGED <<pc, mu, blocked, pkt, reqVars, pins, bluetoothBlocked,
                   kaVars, sigVars, now, bus, waited, dropped, ctx, position,
                   rdVars, codecVars, mainpc, fatal, cbVars>>

\* ------------------------------------------------------------------- main

\* What no step of main's start touches.
mitmVars ==
    <<mu, blocked, pkt, reqVars, pins, bluetoothBlocked, kaVars, sigVars, now,
      bus, waited, dropped, position, rdVars, codecVars>>

\* m.init returns nil: the pumps are running, and main sets the pin interrupt,
\* starts the server and goes into its heartbeat loop.
InitOk ==
    /\ mainpc = "boot"
    /\ mainpc' = "run"
    /\ pc' = Started
    /\ UNCHANGED <<mitmVars, ctx, fed, fatal, led, sideVars>>

\* m.init returns newLedError(k, err), for k in 1..4, before it has started a
\* pump: main panics with it, and the deferred function calls cancel, recovers
\* the ledSequencer and goes into its loop.
InitFail ==
    /\ mainpc = "boot"
    /\ \E k \in 1..4 : fatal' = k
    /\ ctx' = TRUE
    /\ mainpc' = "flatline"
    /\ UNCHANGED <<mitmVars, pc, fed, led, sideVars>>

\* A flatline loop that returns after one pass.
FlatlineOnce ==
    /\ mainpc = "flatline"
    /\ Update("main")
    /\ led' = "error"
    /\ mainpc' = "exited"
    /\ UNCHANGED <<mitmVars, pc, ctx, fatal, cbVars>>

\* One pass of the loop of the deferred function: the watchdog is updated and
\* the error's sequence is flashed; an error of flash is logged only.
Flatline ==
    /\ mainpc = "flatline"
    /\ Update("main")
    /\ led' = "error"
    /\ UNCHANGED <<mitmVars, pc, ctx, mainpc, fatal, cbVars>>

\* ------------------------------------------------------------------ clock

TickTo(m) ==
    /\ now < m
    /\ now' = now + 1
    /\ UNCHANGED <<pc, mu, blocked, pkt, reqVars, pins, bluetoothBlocked,
                   kaVars, sigVars, bus, waited, dropped>>
    /\ UNCHANGED newVars

Tick == TickTo(MaxTime)

TickKA == TickTo(MaxTimeKA)

\* --------------------------------------------------------- specifications

\* The tasks that write the bus, the button line and the clock.
Next ==
    \/ PumpRead
    \/ PumpTryLock
    \/ PumpWrite
    \/ PumpUnlock
    \/ MoveToLock
    \/ MoveToGate
    \/ MoveToWrite
    \/ MoveToAlive
    \/ MoveToReturn
    \/ WriteEventLock
    \/ WriteEventGate
    \/ WriteEventWrite
    \/ WriteEventAlive
    \/ WriteEventReturn
    \/ ButtonInterrupt
    \/ KeepAliveTimer
    \/ KeepAliveLast
    \/ KeepAliveBegin
    \/ KeepAliveWrite
    \/ KeepAliveFail
    \/ KeepAliveEnd
    \/ Tick

Spec == Init /\ [][Next]_vars

\* The keep-alive task with the handset pump and the HTTP move_to handler, over
\* two intervals.
NextKA ==
    \/ PumpRead
    \/ PumpTryLock
    \/ PumpWrite
    \/ PumpUnlock
    \/ MoveToLock
    \/ MoveToGate
    \/ MoveToWrite
    \/ MoveToAlive
    \/ MoveToReturn
    \/ KeepAliveTimer
    \/ KeepAliveLast
    \/ KeepAliveBegin
    \/ KeepAliveWrite
    \/ KeepAliveFail
    \/ KeepAliveEnd
    \/ TickKA

SpecKA == Init /\ [][NextKA]_vars

\* The Bluetooth move_to characteristic with the /bt/ switch.
NextBT ==
    \/ PumpRead
    \/ PumpTryLock
    \/ PumpWrite
    \/ PumpUnlock
    \/ WriteEventLock
    \/ WriteEventGate
    \/ WriteEventWrite
    \/ WriteEventAlive
    \/ WriteEventReturn
    \/ BtAllow
    \/ ButtonInterrupt

SpecBT == Init /\ [][NextBT]_vars

\* The two move_to front ends and the handset pump with the /bt/ switch.
NextRemote ==
    \/ PumpRead
    \/ PumpTryLock
    \/ PumpWrite
    \/ PumpUnlock
    \/ MoveToLock
    \/ MoveToGate
    \/ MoveToWrite
    \/ MoveToAlive
    \/ MoveToReturn
    \/ WriteEventLock
    \/ WriteEventGate
    \/ WriteEventWrite
    \/ WriteEventAlive
    \/ WriteEventReturn
    \/ BtAllow

SpecRemote == Init /\ [][NextRemote]_vars

\* The steps of each task once it has been started; a request coming in, a
\* packet coming in and the button are the environment's.
PumpStep == PumpTryLock \/ PumpWrite \/ PumpUnlock

HttpStep == MoveToGate \/ MoveToWrite \/ MoveToAlive \/ MoveToReturn

BtStep == WriteEventGate \/ WriteEventWrite \/ WriteEventAlive \/ WriteEventReturn

KaStep ==
    \/ KeepAliveTimer
    \/ KeepAliveLast
    \/ KeepAliveBegin
    \/ KeepAliveWrite
    \/ KeepAliveFail
    \/ KeepAliveEnd

\* The tasks from the time keepAlive's first timer is due, with the clock
\* standing and the button line low.
NextLive ==
    \/ PumpRead
    \/ PumpStep
    \/ MoveToLock
    \/ HttpStep
    \/ WriteEventLock
    \/ BtStep
    \/ KaStep

\* An Unlock hands the mutex to task t.
HandedTo(t) ==
    /\ \/ PumpUnlock
       \/ MoveToReturn
       \/ WriteEventReturn
       \/ KeepAliveFail
       \/ KeepAliveEnd
    /\ mu' = t

\* The scheduler runs every task that can run, and the mutex does not pass
\* over a parked task for ever.
Fairness ==
    /\ WF_vars(PumpStep)
    /\ WF_vars(HttpStep)
    /\ WF_vars(BtStep)
    /\ WF_vars(KaStep)
    /\ \A t \in Bursters : SF_vars(HandedTo(t))

FairSpec == InitLive /\ [][NextLive]_vars /\ Fairness

\* The pump and the two move_to handlers with the button line.
NextButton ==
    \/ PumpRead
    \/ PumpStep
    \/ MoveToLock
    \/ HttpStep
    \/ WriteEventLock
    \/ BtStep
    \/ ButtonInterrupt

FairnessButton ==
    /\ WF_vars(PumpStep)
    /\ WF_vars(HttpStep)
    /\ WF_vars(BtStep)
    /\ \A t \in Cmds : SF_vars(HandedTo(t))

FairSpecButton == Init /\ [][NextButton]_vars /\ FairnessButton

\* The two pumps, keepAlive and the HTTP move_to handler from the time
\* keepAlive's first timer is due, with cancel.
NextCancel ==
    \/ PumpRead
    \/ PumpStep
    \/ PumpExit
    \/ CtlRead
    \/ CtlExit
    \/ MoveToLock
    \/ HttpStep
    \/ KaStep
    \/ KeepAliveDone
    \/ Cancel

\* Every task that can run is run, the mutex does not pass over a parked task
\* for ever, and a select that is entered again and again with ctx done takes
\* that case in the end.
FairnessCancel ==
    /\ WF_vars(PumpStep)
    /\ WF_vars(PumpExit)
    /\ WF_vars(CtlExit)
    /\ WF_vars(HttpStep)
    /\ WF_vars(KaStep)
    /\ SF_vars(KeepAliveDone)
    /\ \A t \in {"http", "ka"} : SF_vars(HandedTo(t))

FairSpecCancel == InitLive /\ [][NextCancel]_vars /\ FairnessCancel

\* The two pumps with the other tasks of the program (the HTTP move_to
\* handler, keepAlive, main's heartbeat) and the watchdog's count-down, from
\* the time keepAlive's first timer is due.
NextPumps ==
    \/ PumpRead
    \/ PumpStep
    \/ CtlRead
    \/ MoveToLock
    \/ HttpStep
    \/ KaStep
    \/ Heartbeat
    \/ WatchdogCount

SpecPumps == InitLive /\ [][NextPumps]_vars

\* uartReader.packet on a stray byte followed by a packet, for every way the
\* six bytes can come out of r.src.Read.
InitReader ==
    /\ InitTasks(0)
    /\ IdleCodec
    /\ \E x \in StrayBytes, f \in ValidFrames :
          /\ stream = <<x>> \o f
          /\ \E cuts \in SUBSET (1..ReaderLen) :
                chunks = Split(<<x>> \o f, cuts)
    /\ read = <<>>
    /\ out = NoPacket

NextReader ==
    \/ ReaderRead
    \/ ReaderReadError

SpecReader == InitReader /\ [][NextReader]_vars

\* key on each of its arguments.
InitKey ==
    /\ InitTasks(0)
    /\ IdleReader
    /\ payload \in KeyPayloads
    /\ result = NoResult

NextKey == KeyCall

SpecKey == InitKey /\ [][NextKey]_vars

\* height on each of its arguments, and then again on the blank and the reset
\* display.
InitHeight ==
    /\ InitTasks(0)
    /\ IdleReader
    /\ payload \in HeightPayloads
    /\ result = NoResult

NextHeight ==
    \/ HeightCall
    \/ HeightAgain

SpecHeight == InitHeight /\ [][NextHeight]_vars

\* The program from the start of main: m.init returns nil or an error, and
\* then either the tasks of normal operation run or the flatline loop does.
InitBoot ==
    /\ InitFields(0)
    /\ pc = [t \in Tasks |-> "unstarted"]
    /\ mainpc = "boot"
    /\ fatal = 0
    /\ led = "off"
    /\ IdleSide
    /\ IdleReader
    /\ IdleCodec

NextBoot ==
    \/ InitOk
    \/ InitFail
    \/ Flatline
    \/ Heartbeat
    \/ WatchdogCount
    \/ ButtonInterrupt
    \/ PumpRead
    \/ PumpStep
    \/ CtlRead
    \/ MoveToLock
    \/ HttpStep

\* main runs: init returns, and the flatline loop goes round.
FairnessBoot ==
    /\ WF_vars(InitOk \/ InitFail)
    /\ WF_vars(Flatline)

FairSpecBoot == InitBoot /\ [][NextBoot]_vars /\ FairnessBoot

\* The handset's readUART loop with its uartReader on each stream, given by
\* one r.src.Read or cut into two, with cancel.
InitPacket ==
    /\ InitTasks(0)
    /\ IdleCodec
    /\ stream \in Streams
    /\ \E cuts \in {{}} \cup {{i} : i \in 1..(MaxStream - 1)} :
          /\ cuts \subseteq 1..(Len(stream) - 1)
          /\ chunks = Split(stream, cuts)
    /\ read = <<>>
    /\ out = NoPacket

NextPacket ==
    \/ ReaderRead
    \/ ReaderReadError
    \/ ReaderCancelled
    \/ ReadUART
    \/ PumpStep
    \/ PumpExit
    \/ Cancel

SpecPacket == InitPacket /\ [][NextPacket]_vars

\* The handset's readUART loop with its uartReader on a line whose reads
\* give more than one packet.
InitBacklog ==
    /\ InitTasks(0)
    /\ IdleCodec
    /\ chunks \in UNION {[1..k -> BackChunks] : k \in 1..MaxChunks}
    /\ stream = Concat(chunks)
    /\ read = <<>>
    /\ out = NoPacket

NextBacklog ==
    \/ ReaderRead
    \/ ReadUART
    \/ PumpStep

SpecBacklog == InitBacklog /\ [][NextBacklog]_vars

\* Both pumps, each with its reader, on a packet or an over-long packet that
\* comes in one read.
InitLong ==
    /\ InitTasks(0)
    /\ IdleCodec
    /\ stream \in LongStreams
    /\ chunks = <<stream>>
    /\ read = <<>>
    /\ out = NoPacket

NextLong ==
    \/ OnLine("pump") /\ ReaderRead
    \/ OnLine("pump") /\ ReadUART
    \/ PumpStep
    \/ CtlPacket
    \/ CtlReadUART

SpecLong == InitLong /\ [][NextLong]_vars

\* digit on every byte.
InitDigit ==
    /\ InitTasks(0)
    /\ IdleReader
    /\ payload \in {<<b>> : b \in 0..255}
    /\ result = NoResult

NextDigit == DigitCall

SpecDigit == InitDigit /\ [][NextDigit]_vars

\* The positions a three-digit display can show with its point after the
\* first, the second or the third digit, and the zero position of a desk
\* that has reported nothing yet.
MaxMantissa == 999

Exponents == {0 - 2, 0 - 1, 0}

Displayed == {<<mantissa, exponent>> : mantissa \in 1..MaxMantissa,
                                       exponent \in Exponents}

\* The program with some position stored, asked for the height over HTTP or
\* over Bluetooth.
InitString ==
    /\ \E p \in Displayed \cup {<<0, 0>>} : InitFieldsAt(0, p)
    /\ pc = Started
    /\ mainpc = "run"
    /\ fatal = 0
    /\ led = "off"
    /\ IdleSide
    /\ IdleReader
    /\ IdleCodec

NextString ==
    \/ HeightGet
    \/ HeightRead

SpecString == InitString /\ [][NextString]_vars

\* The three tasks that update the watchdog, and its counter, until the
\* watchdog expires and resets the chip.
NextWatchdog ==
    \/ wd < WatchdogTimeout /\ PumpRead
    \/ wd < WatchdogTimeout /\ PumpStep
    \/ wd < WatchdogTimeout /\ CtlRead
    \/ wd < WatchdogTimeout /\ Heartbeat
    \/ WatchdogTick

SpecWatchdog == Init /\ [][NextWatchdog]_vars

\* The program that passes the controller's packets on to the handset: the
\* two pumps, main's heartbeat and the watchdog's count-down.
NextThrough ==
    \/ CtlThrough
    \/ PumpRead
    \/ PumpStep
    \/ Heartbeat
    \/ WatchdogCount

SpecThrough == Init /\ [][NextThrough]_vars

\* The handset pump with its log of the keys, and the HTTP move_to handler
\* that takes the lock from it.
NextKeys ==
    \/ PumpReadLog
    \/ PumpStep
    \/ MoveToLock
    \/ HttpStep

SpecKeys == Init /\ [][NextKeys]_vars

\* ----------------------------------------------------------------- claims

\* The tasks that are inside a write section: between the acquisition of the
\* mutex and its release.
InSection(t) ==
    pc[t] \in {"gate", "begin", "write", "alive", "end", "fail", "ret", "unlock"}

\* C1: writes to the controller bus are mutually exclusive. A task that is
\* about to write, or is anywhere between its acquisition and its release of
\* the lock, is the one holder of the lock; no two tasks are there together;
\* and every packet written since the lock was last acquired was written by
\* its present holder, so that no packet of another writer lies among them.
C1_BusWritesExclusive ==
    /\ \A t \in Tasks : InSection(t) => mu = t
    /\ \A t, u \in Tasks : InSection(t) /\ InSection(u) => t = u
    /\ \A k \in DOMAIN bus : bus[k].w = mu

\* The keep-alive task is in its burst while the HTTP handler and the
\* Bluetooth handler wait for the lock and the pump has a packet to forward.
C1_Witness ==
    /\ pc["ka"] = "write"
    /\ Len(bus) >= 2
    /\ blocked = {"http", "bt"}
    /\ pc["pump"] = "trylock"

\* C2: a command that is parked on the lock always gets it in the end and its
\* handler returns, and the pump writes at most one packet while a command is
\* parked.
C2_CommandGetsLock ==
    /\ [](\A t \in Cmds : waited[t] <= 1)
    /\ \A t \in Cmds : (pc[t] = "blocked") ~> (mu = t)
    /\ \A t \in Cmds : (mu = t) ~> (pc[t] = "idle")

\* The HTTP handler found the pump holding the lock, the pump wrote its one
\* packet, and the handler now holds the lock and is in its burst.
C2_Witness ==
    /\ pc["http"] = "write"
    /\ mu = "http"
    /\ waited["http"] = 1
    /\ Len(bus) >= 1

\* C3: the pump never waits for the lock. It is never among the parked tasks;
\* when it has a packet and the lock is held, the packet is dropped, nothing is
\* written and the pump goes back to reading; when the lock is free the pump
\* takes it, writes the five bytes it read, unchanged and once, and releases
\* the lock.
C3_PumpNeverWaits ==
    /\ []("pump" \notin blocked /\ pc["pump"] # "blocked")
    /\ [][pc["pump"] = "read" /\ pc'["pump"] # "read" =>
            /\ pc'["pump"] = "trylock"
            /\ Len(pkt') = 5
            /\ \E r \in HandsetPackets : r.err = "nil" /\ pkt' = r.pkt]_vars
    /\ [][pc["pump"] = "trylock" /\ pc'["pump"] # "trylock" =>
            IF mu # None
            THEN /\ pc'["pump"] = "read"
                 /\ pkt' = <<>>
                 /\ UNCHANGED <<bus, mu, blocked>>
            ELSE /\ pc'["pump"] = "write"
                 /\ mu' = "pump"
                 /\ pkt' = pkt]_vars
    /\ [][pc["pump"] = "write" /\ pc'["pump"] # "write" =>
            /\ bus' = <<[w |-> "pump", f |-> pkt]>>
            /\ pkt' = pkt
            /\ pc'["pump"] = "unlock"]_vars
    /\ [][pc["pump"] = "unlock" /\ pc'["pump"] # "unlock" =>
            /\ mu = "pump"
            /\ mu' # "pump"
            /\ pc'["pump"] = "read"]_vars

\* The pump has dropped a packet because the HTTP handler, in its burst, holds
\* the lock; the pump is reading again.
C3_Witness ==
    /\ dropped
    /\ pc["pump"] = "read"
    /\ pc["http"] = "write"
    /\ Len(bus) = 3

\* The slot a move_to request names, whether it names one of the four memory
\* slots, and what the bus holds after k writes of packet p by task t.
Slot(t) == IF t = "http" THEN Atoi(arg[t]).val ELSE arg[t]

ValidSlot(t) == (t = "http" => ~Atoi(arg[t]).err) /\ Slot(t) \in 1..4

Frame(h) == <<165, 0, 2^h, 255 - 2^h, 255>>

Burst(t, p, k) == [i \in 1..k |-> [w |-> t, f |-> p]]

\* C4 as stated: a move_to for a slot in 1..4 that has returned without a write
\* error has written five copies of A5 00 (1<<slot) (FF-(1<<slot)) FF and
\* nothing else.
C4_Original ==
    \A t \in Cmds :
       pc[t] = "ret" /\ ValidSlot(t) /\ resp[t] \notin {"500", "err"} =>
          bus = Burst(t, Frame(Slot(t)), 5)

\* C4: a move_to for a slot in 1..4 that finds the button line low when it
\* holds the lock starts its burst; while in the burst the bus holds only its
\* own copies of A5 00 (1<<slot) (FF-(1<<slot)) FF, one for each write done;
\* the burst is left early only with a write error; and a move_to that
\* answers "ok" has written five copies and nothing else.
C4_MoveToBurst ==
    /\ [][\A t \in Cmds :
            pc[t] = "gate" /\ pc'[t] # "gate" /\ ~button /\ ValidSlot(t)' =>
               pc'[t] = "write" /\ n'[t] = 0 /\ bus' = <<>>]_vars
    /\ [](\A t \in Cmds :
            pc[t] = "write" =>
               /\ ValidSlot(t)
               /\ n[t] < 5
               /\ bus = Burst(t, Frame(Slot(t)), n[t]))
    /\ [][\A t \in Cmds :
            pc[t] = "write" /\ pc'[t] = "ret" => resp'[t] \in {"500", "err"}]_vars
    /\ [](\A t \in Cmds :
            pc[t] = "alive" \/ (pc[t] = "ret" /\ resp[t] = "ok") =>
               /\ ValidSlot(t)
               /\ bus = Burst(t, Frame(Slot(t)), 5))

\* The HTTP handler has answered "ok" for slot 3 and the bus holds its five
\* packets.
C4_Witness ==
    /\ pc["http"] = "ret"
    /\ resp["http"] = "ok"
    /\ arg["http"] = <<"3">>
    /\ bus = Burst("http", <<165, 0, 8, 247, 255>>, 5)

\* C5 as stated: a move_to for a slot in 1..4 does not return without having
\* written or reported an error.
C5_Original ==
    \A t \in Cmds :
       pc[t] = "ret" /\ ValidSlot(t) =>
          bus # <<>> \/ resp[t] \in {"500", "err"}

\* C5: a move_to is never lost to a busy bus. A request that comes to the lock
\* takes it or parks, and a parked request always gets the lock in the end.
\* With the lock held, a request for a slot in 1..4 starts its burst when
\* the button line is low, and then always writes; when the button line is
\* high it returns with an empty answer, having written nothing.
C5_MoveToNotLost ==
    /\ [][\A t \in Cmds :
            pc[t] = "idle" /\ pc'[t] # "idle" =>
               pc'[t] = (IF mu = None THEN "gate" ELSE "blocked")]_vars
    /\ \A t \in Cmds : (pc[t] = "blocked") ~> (pc[t] = "gate")
    /\ [][\A t \in Cmds :
            pc[t] = "gate" /\ pc'[t] # "gate" /\ ValidSlot(t)' =>
               IF button
               THEN pc'[t] = "ret" /\ resp'[t] = "empty" /\ bus' = <<>>
               ELSE pc'[t] = "write"]_vars
    /\ \A t \in Cmds :
          (pc[t] = "write" /\ n[t] = 0) ~> (bus # <<>> /\ bus[1].w = t)

\* The Bluetooth handler was parked while the pump wrote a packet, was then
\* handed the lock and has written the first packet of its burst.
C5_Witness ==
    /\ pc["bt"] = "write"
    /\ waited["bt"] = 1
    /\ bus = Burst("bt", <<165, 0, 4, 251, 255>>, 1)

\* C6: a move_to for a slot outside 1..4 is refused. With the lock held the
\* handler goes straight to its return: it writes nothing, leaves the activity
\* line as it is and raises no activity signal, and answers "400" or logs
\* "invalid position" when the button line is low; on return the lock is no
\* longer held by the handler.
C6_InvalidSlotRefused ==
    /\ [][\A t \in Cmds :
            pc[t] = "gate" /\ pc'[t] # "gate" /\ ~ValidSlot(t)' =>
               /\ pc'[t] = "ret"
               /\ bus = <<>>
               /\ UNCHANGED <<bus, act, lastCh, sigAt>>
               /\ ~button => resp'[t] \in {"400", "invalid"}]_vars
    /\ [](\A t \in Cmds :
            pc[t] = "ret" /\ ~ValidSlot(t) => bus = <<>> /\ mu = t)
    /\ [][\A t \in Cmds :
            pc[t] = "ret" /\ pc'[t] # "ret" /\ ~ValidSlot(t) =>
               /\ pc'[t] = "idle"
               /\ mu' # t
               /\ UNCHANGED <<act, lastCh, sigAt>>]_vars

\* The Bluetooth handler has refused slot 5: nothing is on the bus, the
\* activity line is low and no signal is pending.
C6_Witness ==
    /\ pc["bt"] = "ret"
    /\ arg["bt"] = 5
    /\ resp["bt"] = "invalid"
    /\ bus = <<>>
    /\ ~act
    /\ lastCh = <<>>

\* The steps of keepAlive's select: the timer case is taken, and a time is
\* received from m.last.
FireStep == pc["ka"] = "select" /\ pc'["ka"] \in {"begin", "blocked"}

RecvStep == pc["ka"] = "select" /\ lastCh # <<>> /\ lastCh' = Tail(lastCh)

\* C7 as stated: the keep-alive does not fire when an activity signal was
\* raised strictly before the expiry of its timer and less than one interval
\* before it.
C7_Original ==
    [][FireStep =>
         ~(sigAt # NoTime /\ sigAt < timer /\ sigAt + KeepAliveInterval > timer)]_vars

\* C7: the keep-alive fires only when its timer has expired, and the timer is
\* never due less than one interval after the task's reference time, which
\* changes only when the task fires or receives an activity signal. A signal
\* that the task receives does not fire: the reference time becomes the time
\* the signal was raised and the next timer is due one interval after that
\* time.
C7_FiresAfterIdleInterval ==
    /\ [](pc["ka"] = "select" => timer >= last + KeepAliveInterval)
    /\ [][FireStep =>
            /\ now >= timer
            /\ last' >= timer
            /\ last' <= now
            /\ UNCHANGED <<lastCh, timer>>]_vars
    /\ [][RecvStep =>
            /\ pc'["ka"] = "select"
            /\ last' = Head(lastCh)
            /\ Head(lastCh) <= sigAt
            /\ timer' = Max(Head(lastCh) + KeepAliveInterval, now)
            /\ UNCHANGED <<bus, mu, act>>]_vars
    /\ [][last' # last => FireStep \/ RecvStep]_vars

\* The first timer was due at 2; a signal raised at 1 was received, so at 2
\* the task has not fired and its timer is due at 3.
C7_Witness ==
    /\ pc["ka"] = "select"
    /\ now = 2
    /\ sigAt = 1
    /\ last = 1
    /\ timer = 3
    /\ lastCh = <<>>

\* C8 as stated: every firing of the keep-alive has written A5 00 60 9F FF
\* five times when it goes back to waiting.
C8_Original ==
    [][pc["ka"] \in {"write", "end", "fail"} /\ pc'["ka"] = "select" =>
         bus = Burst("ka", <<165, 0, 96, 159, 255>>, 5)]_vars

\* C8: a firing takes the lock or parks for it; from the start of its burst
\* to its end the task holds the lock and the bus holds only its own copies of
\* A5 00 60 9F FF, one for each write done and five when no write has failed;
\* at the end, and after a failed write, the lock is given up and the task
\* waits again with its timer due one interval after the time it fired.
\* With no activity signal between them, a full interval lies between two
\* firings.
C8_KeepAliveBurst ==
    /\ [][FireStep =>
            pc'["ka"] = (IF mu = None THEN "begin" ELSE "blocked")]_vars
    /\ [](pc["ka"] \in {"begin", "write", "end", "fail"} => mu = "ka")
    /\ [](pc["ka"] = "begin" => bus = <<>>)
    /\ [](pc["ka"] = "write" =>
            /\ n["ka"] < 5
            /\ bus = Burst("ka", <<165, 0, 96, 159, 255>>, n["ka"]))
    /\ [](pc["ka"] = "end" => bus = Burst("ka", <<165, 0, 96, 159, 255>>, 5))
    /\ [][pc["ka"] \in {"end", "fail"} /\ pc'["ka"] # pc["ka"] =>
            /\ pc'["ka"] = "select"
            /\ mu' # "ka"
            /\ last' = last
            /\ timer' = Max(last + KeepAliveInterval, now)]_vars
    /\ [](gap = NoTime \/ gap >= KeepAliveInterval)

\* The second of two firings with no signal between them, one interval after
\* the first, at the end of its five writes.
C8_Witness ==
    /\ pc["ka"] = "end"
    /\ gap = KeepAliveInterval
    /\ last = 2 * KeepAliveInterval
    /\ bus = Burst("ka", <<165, 0, 96, 159, 255>>, 5)

\* The packet the pump holds is a button press.
IsPress == Len(pkt) = 5 /\ key(SubSeq(pkt, 2, 5)).s # <<"_">>

\* C9 as stated: when the pump forwards a button press, an activity signal is
\* raised as it is at the end of a command.
C9_Original ==
    [][pc["pump"] = "write" /\ pc'["pump"] = "unlock" /\ IsPress =>
         sigAt' = now /\ lastCh' = alive]_vars

\* C9: the pump raises no activity signal. No step of the pump, a forwarded
\* button press included, changes m.last, the keep-alive's reference time or
\* its timer; an activity signal is raised only by a move_to handler that has
\* written its whole burst.
C9_PressNotSignalled ==
    /\ [][pc'["pump"] # pc["pump"] =>
            UNCHANGED <<lastCh, sigAt, last, timer, quietSince>>]_vars
    /\ [][sigAt' # sigAt \/ Len(lastCh') > Len(lastCh) =>
            \E t \in Cmds :
               /\ pc[t] = "alive"
               /\ pc'[t] = "ret"
               /\ resp'[t] = "ok"
               /\ Len(bus) = 5]_vars

\* The keep-alive fired at 2 and waits for 4; since then the pump has taken
\* the lock and forwarded an Up press, and at 3 no signal has been raised and
\* the timer is still due at 4.
C9_Witness ==
    /\ pc["pump"] = "unlock"
    /\ IsPress
    /\ bus = <<[w |-> "pump", f |-> pkt]>>
    /\ pc["ka"] = "select"
    /\ quietSince = 2
    /\ timer = 4
    /\ now = 3
    /\ lastCh = <<>>
    /\ sigAt = NoTime

\* A move_to handler calls m.alive().
AliveStep(t) == pc[t] = "alive" /\ pc'[t] # "alive"

\* C10 as stated: at most one time is pending in m.last, and an alive() called
\* while one is pending, or while the keep-alive task is not at its select,
\* leaves m.last as it was.
C10_Original ==
    /\ [](Len(lastCh) <= 1)
    /\ [][\A t \in Cmds :
            AliveStep(t) /\ (lastCh # <<>> \/ pc["ka"] # "select") =>
               lastCh' = lastCh]_vars

\* C10: alive() never waits: a handler that has come to it can always take the
\* step. At most one time is pending in m.last. Called while one is pending,
\* alive() leaves m.last as it was; called while none is pending, it leaves
\* the present time pending, whether or not the keep-alive task is at its
\* select.
C10_AliveNeverBlocks ==
    /\ [](Len(lastCh) <= 1)
    /\ [](pc["http"] = "alive" => ENABLED MoveToAlive)
    /\ [](pc["bt"] = "alive" => ENABLED WriteEventAlive)
    /\ [][\A t \in Cmds :
            AliveStep(t) =>
               /\ pc'[t] = "ret"
               /\ lastCh' = IF lastCh = <<>> THEN <<now>> ELSE lastCh]_vars

\* The time sent at 0 is still pending; the Bluetooth handler called alive()
\* at 1 and that time was not kept.
C10_Witness ==
    /\ pc["bt"] = "ret"
    /\ resp["bt"] = "ok"
    /\ lastCh = <<0>>
    /\ sigAt = 1

\* A step after which the task sleeps or waits without having looked at ctx:
\* the pump's write (time.Sleep(poll) follows it), keepAlive parking in Lock,
\* and the sleeps of keepAlive's burst.
SleepsUnchecked ==
    \/ pc["pump"] = "write" /\ pc'["pump"] = "unlock"
    \/ pc["ka"] = "select" /\ pc'["ka"] = "blocked"
    \/ pc["ka"] \in {"begin", "write"} /\ (pc'["ka"] # pc["ka"] \/ n'["ka"] # n["ka"])

AllStopped == \A t \in Stoppable : pc[t] = "done"

\* C11 as stated: once ctx is done the two pumps and keepAlive all return in
\* the end; none of them goes into a sleep or a wait after ctx is done; and
\* none of them has returned with the lock held.
C11_Original ==
    /\ ctx ~> AllStopped
    /\ [][ctx => ~SleepsUnchecked]_vars
    /\ [](\A t \in Stoppable : pc[t] = "done" => mu # t)

\* C11: once ctx is done the two pumps and keepAlive all return in the end.
\* A pump looks at ctx before every read: with ctx done it leaves its read
\* loop only by returning. A task returns only with ctx done and only from
\* its read loop or its select, never from inside a locked section, and it
\* stays returned. A task that has returned neither holds the lock nor is
\* parked for it, and when all three have returned none of them holds it.
C11_CancelStopsTasks ==
    /\ ctx ~> AllStopped
    /\ [][\A t \in {"pump", "ctl"} :
            ctx /\ pc[t] = "read" /\ pc'[t] # "read" => pc'[t] = "done"]_vars
    /\ [][\A t \in Stoppable :
            pc[t] # "done" /\ pc'[t] = "done" =>
               /\ ctx
               /\ pc[t] \in {"read", "select"}
               /\ mu # t]_vars
    /\ [][\A t \in Stoppable : pc[t] = "done" => pc'[t] = "done"]_vars
    /\ [](\A t \in Stoppable : pc[t] = "done" => mu # t /\ t \notin blocked)
    /\ [](AllStopped => mu \notin Stoppable)

\* ctx is done, the two pumps and keepAlive have returned, and the lock is
\* free.
C11_Witness ==
    /\ ctx
    /\ AllStopped
    /\ mu = None
    /\ pc["http"] = "idle"

\* The errors height returns for a packet that carries no position.
NoPositionErrs ==
    {"errNoHeight", "errReset", "contErr", "contErr+errChecksumMismatch",
     "errExtraDot", "errChecksumMismatch", "errInvalidPacketLength"}

\* C12: m.position changes only in a step of the controller pump that read a
\* packet without a framing error and decoded it without an error, and then
\* to the decoded position. A packet that decodes to no height, a reset, a
\* controller fault, a format error or a checksum mismatch leaves it as it
\* was, and so does every step of every other task.
C12_PositionFromGoodFrame ==
    /\ [][position' # position =>
            \E r \in ControllerPackets :
               /\ CtlReadOf(r)
               /\ r.err = "nil"
               /\ height(Tail(r.pkt)).err = "nil"
               /\ position' = height(Tail(r.pkt)).pos]_vars
    /\ [][\A r \in ControllerPackets :
            /\ CtlReadOf(r)
            /\ \/ r.err # "nil"
               \/ height(Tail(r.pkt)).err \in NoPositionErrs
            => position' = position]_vars
    /\ [][\/ PumpRead
          \/ PumpStep
          \/ MoveToLock
          \/ HttpStep
          \/ KaStep
          \/ Heartbeat
          \/ WatchdogCount
          => position' = position]_vars

\* The controller pump has stored 72.0 as the position.
C12_Witness ==
    /\ position = <<720, 0 - 1>>
    /\ pc["ctl"] = "read"

\* C13: each pump updates the watchdog for every packet it has read without
\* a framing error, whatever the decoder then makes of the packet: also when
\* key or height returns an error, and when the handset pump later drops the
\* packet because the lock is taken. After a framing error the pump does not
\* update it.
C13_PumpsFeedWatchdog ==
    /\ [][\A r \in HandsetPackets :
            PumpReadOf(r) => fed' = IF r.err = "nil" THEN "pump" ELSE fed]_vars
    /\ [][\A r \in ControllerPackets :
            CtlReadOf(r) => fed' = IF r.err = "nil" THEN "ctl" ELSE fed]_vars

\* The handset pump updated the watchdog for a packet that it then dropped at
\* TryLock, and nothing has updated the watchdog since.
C13_Witness ==
    /\ fed = "pump"
    /\ dropped
    /\ pc["pump"] = "read"
    /\ mu \in {"http", "ka"}

\* C14 as stated: a stray byte that is not the start byte, then a valid
\* packet, however the six bytes are cut into reads. Once every byte has been
\* read without a read error, packet has returned the valid packet and no
\* error.
C14_Original ==
    (chunks = <<>> /\ out.err # "errRead") =>
        /\ out.done
        /\ out.pkt = Tail(stream)
        /\ out.err = "nil"

\* key has returned for four bytes whose last is not the sum of the first
\* three.
KeyMismatch ==
    /\ result.done
    /\ Len(payload) = 4
    /\ Sum3(payload) # payload[4]

\* C15 as stated: on a checksum mismatch key returns errChecksumMismatch
\* together with the buttons it returns for the same three bytes when the
\* checksum byte is right.
C15_Original ==
    KeyMismatch =>
        /\ result.err = "errChecksumMismatch"
        /\ result.s = key(<<payload[1], payload[2], payload[3],
                            Sum3(payload)>>).s

\* C15: on a checksum mismatch key returns errChecksumMismatch and the empty
\* string: no button is decoded.
C15_MismatchNoButtons ==
    KeyMismatch =>
        /\ result.err = "errChecksumMismatch"
        /\ result.s = <<>>

\* key has returned for an Up press with the checksum byte 00.
C15_Witness ==
    /\ KeyMismatch
    /\ payload = <<0, 32, 223, 0>>
    /\ result.err = "errChecksumMismatch"

RECURSIVE SetSum(_)
\* The sum of a set of numbers.
SetSum(S) ==
    IF S = {} THEN 0
    ELSE LET x == CHOOSE y \in S : TRUE IN x + SetSum(S \ {x})

\* The handset payload for the set S of places in press: the key byte with
\* bit i - 1 set for place i, its complement, and FF.
EncodeButtons(S) ==
    <<0, SetSum({2 ^ (i - 1) : i \in S}), 255 - SetSum({2 ^ (i - 1) : i \in S}),
      255>>

\* The place of button c in press.
Place(c) == CHOOSE i \in 1..Len(press) : press[i] = c

\* The string t is exactly the buttons at the places S, in the order of press.
IsButtons(t, S) ==
    /\ Len(t) = Cardinality(S)
    /\ {t[j] : j \in 1..Len(t)} = {press[i] : i \in S}
    /\ \A j \in 1..Len(t) : \A k \in 1..Len(t) :
          j < k => Place(t[j]) < Place(t[k])

\* C16: for every non-empty set S of the buttons m, 1, 2, 3, 4, u, d, key on
\* the payload that encodes S returns exactly the buttons of S, in that
\* order, and no error; and for the command packet of slot h in 1..4 it
\* returns the one button h.
C16_ButtonRoundTrip ==
    result.done =>
        /\ \A S \in (SUBSET (1..Len(press))) \ {{}} :
              payload = EncodeButtons(S) =>
                 /\ result.err = "nil"
                 /\ IsButtons(result.s, S)
        /\ \A h \in 1..4 :
              payload = Tail(CmdPkt(h)) =>
                 /\ result.err = "nil"
                 /\ result.s = <<<<"1", "2", "3", "4">>[h]>>

\* key has returned "m1d" for the payload of memory, 1 and Down.
C16_Witness ==
    /\ result.done
    /\ payload = EncodeButtons({1, 2, 7})
    /\ result.s = <<"m", "1", "d">>
    /\ result.err = "nil"

\* The first three bytes of the payload are those of the reset display.
ResetDisplay == SubSeq(payload, 1, 3) = <<119, 109, 120>>

\* C17 as stated: the all-zero payload gives errNoHeight on every call,
\* whatever was decoded before, and the reset display 77 6D 78 gives errReset
\* whatever the checksum byte is.
C17_Original ==
    result.done =>
        /\ payload = <<0, 0, 0, 0>> => result.err = "errNoHeight"
        /\ ResetDisplay => result.err = "errReset"

\* C17: the all-zero payload gives errNoHeight on every call, whatever was
\* decoded before; the reset display 77 6D 78 gives errReset when its
\* checksum byte is 5C, and with any other checksum byte it gives
\* errChecksumMismatch and not errReset. Neither errNoHeight nor errReset
\* comes with a position.
C17_BlankAndReset ==
    result.done =>
        /\ payload = <<0, 0, 0, 0>> =>
              result.err = "errNoHeight" /\ result.pos = <<0, 0>>
        /\ ResetDisplay /\ payload[4] = 92 =>
              result.err = "errReset" /\ result.pos = <<0, 0>>
        /\ ResetDisplay /\ payload[4] # 92 =>
              result.err = "errChecksumMismatch"

\* height has returned for the reset display with the checksum byte 5D.
C17_Witness ==
    /\ result.done
    /\ payload = <<119, 109, 120, 93>>
    /\ result.err = "errChecksumMismatch"

\* The errors that carry a controller fault.
FaultErrs == {"contErr", "contErr+errChecksumMismatch"}

\* The code of the fault in payload: ten times the second byte's character
\* less '0' plus the third byte's character less '0', in a byte.
FaultCode ==
    (10 * (digit(payload[2]).digit - 48) + (digit(payload[3]).digit - 48)) % 256

\* C18 as stated: when the first byte is E in the digit table, with or without
\* the decimal point bit (79 or F9), height returns a controller fault with
\* the code of the two following bytes, whether or not the checksum byte
\* matches, and no position.
C18_Original ==
    result.done /\ digit(payload[1]).digit = 69 =>
        /\ result.err \in FaultErrs
        /\ result.code = FaultCode
        /\ result.pos = <<0, 0>>

\* C18: when the first byte is 79, E without the decimal point bit, height
\* returns a controller fault with the code of the two following bytes and no
\* position: the fault alone when the checksum byte matches, joined with
\* errChecksumMismatch when it does not. When the first byte is F9, E with the
\* decimal point bit, height returns no controller fault.
C18_FaultOnPlainE ==
    result.done =>
        /\ payload[1] = 121 =>
              /\ result.err = IF Sum3(payload) = payload[4]
                              THEN "contErr"
                              ELSE "contErr+errChecksumMismatch"
              /\ result.code = FaultCode
              /\ result.pos = <<0, 0>>
        /\ payload[1] = 249 => result.err \notin FaultErrs

\* height has returned the fault E01 for 79 3F 86 with a wrong checksum byte.
C18_Witness ==
    /\ result.done
    /\ payload = <<121, 63, 134, 63>>
    /\ result.err = "contErr+errChecksumMismatch"
    /\ result.code = 1

\* The digit, 0 to 9, that byte b shows, with or without the decimal point.
DigitOf(b) == CHOOSE d \in 0..9 : DigitBytes[d + 1] = b % 128

\* The places of the payload whose byte has the decimal point bit set.
Flagged == {i \in 1..3 : payload[i] >= 128}

\* The first three bytes of the payload are digits 0 to 9, with or without
\* the decimal point.
AllDigits == \A i \in 1..3 : \E d \in 1..10 : DigitBytes[d] = payload[i] % 128

\* C19: for three digit bytes d0 d1 d2 of which at most one has the decimal
\* point bit, with the right checksum byte, height returns no error, the
\* mantissa 100*d0 + 10*d1 + d2, and as the exponent the index (0, 1 or 2) of
\* the flagged byte less 2, or 0 when no byte is flagged. 06 5B 4F gives
\* mantissa 123 and exponent 0.
C19_DigitsToPosition ==
    /\ result.done /\ AllDigits /\ Cardinality(Flagged) <= 1
         /\ Sum3(payload) = payload[4] =>
          /\ result.err = "nil"
          /\ result.pos[1] = 100 * DigitOf(payload[1]) + 10 * DigitOf(payload[2])
                               + DigitOf(payload[3])
          /\ result.pos[2] = IF Flagged = {}
                             THEN 0
                             ELSE (CHOOSE i \in Flagged : TRUE) - 1 - 2
    /\ result.done /\ payload = <<6, 91, 79, 176>> =>
          result.err = "nil" /\ result.pos = <<123, 0>>

\* height has returned 72.3 for 07 DB 4F with the right checksum byte.
C19_Witness ==
    /\ result.done
    /\ payload = <<7, 219, 79, 49>>
    /\ result.pos = <<723, 0 - 1>>
    /\ result.err = "nil"

\* The payload is neither blank nor the reset display nor a fault in its
\* first three bytes, and at most one byte has the decimal point bit.
PlainDisplay ==
    /\ SubSeq(payload, 1, 3) # <<0, 0, 0>>
    /\ ~ResetDisplay
    /\ payload[1] # 121
    /\ Cardinality(Flagged) <= 1

C21_ExtraDotNoPosition ==
    /\ result.done
    /\ SubSeq(payload, 1, 3) # <<0, 0, 0>>
    /\ ~ResetDisplay
    /\ payload[1] # 121
    /\ Cardinality(Flagged) >= 2
    => /\ result.err = "errExtraDot"
       /\ result.pos = <<0, 0>>

\* height has returned errExtraDot for 7.2 with a second decimal point in the
\* last place, 87 5B BF, and a wrong checksum byte.
C21_Witness ==
    /\ result.done
    /\ payload = <<135, 91, 191, 162>>
    /\ result.err = "errExtraDot"
    /\ result.pos = <<0, 0>>

\* C22: when m.init fails main is in the flatline loop from then on and never
\* leaves it. In the loop no task of normal operation has been started (no
\* pump, no server, no keepAlive), nothing has been written to the bus, the
\* button line is not copied to the activity line, and the heartbeat's
\* sequence is never flashed. Every pass of the loop updates the watchdog,
\* and the passes go on for ever: whenever the watchdog has counted since the
\* last update, it is updated again.
C22_InitFailureFlatlines ==
    /\ [](fatal # 0 => mainpc = "flatline")
    /\ [][mainpc = "flatline" => mainpc' = "flatline"]_vars
    /\ [](mainpc = "flatline" =>
            /\ fatal \in 1..4
            /\ \A t \in Tasks : pc[t] = "unstarted"
            /\ bus = <<>>
            /\ ~act
            /\ led # "normal")
    /\ [][Flatline => fed' = "main" /\ led' = "error"]_vars
    /\ (mainpc = "flatline") ~> (led = "error")
    /\ (mainpc = "flatline" /\ fed = "stale") ~> (fed = "main")

\* Watchdog.Start has failed, the flatline loop has flashed the error's
\* sequence and updated the watchdog, and the button is down with the
\* activity line low.
C22_Witness ==
    /\ mainpc = "flatline"
    /\ fatal = 4
    /\ led = "error"
    /\ fed = "main"
    /\ button
    /\ ~act

\* The task that wrote the last packet on the bus.
LastWriter == bus[Len(bus)].w

\* C23 as stated: while m.bluetoothBlocked is set, every packet written to
\* the bus is the handset pump's: neither move_to front end writes.
C23_Original ==
    [][bluetoothBlocked /\ bus' # bus /\ bus' # <<>> => LastWriter' = "pump"]_vars

\* C23: while m.bluetoothBlocked is set, a Bluetooth WriteEvent that comes in
\* is refused before the lock, so that it writes nothing; only a WriteEvent
\* that had passed the check before the flag was set goes on to write. The
\* HTTP handler does not look at the flag: with the flag set a PUT still goes
\* on to the lock. The handset pump does not look at it either: with the lock
\* free its TryLock succeeds and its write is done, flag or no flag.
C23_BluetoothOnlyBlocked ==
    /\ [][bluetoothBlocked /\ pc["bt"] = "idle" => pc'["bt"] = "idle"]_vars
    /\ [][bluetoothBlocked /\ bus' # bus /\ bus' # <<>> /\ LastWriter' = "bt" =>
            pc["bt"] = "write"]_vars
    /\ [](bluetoothBlocked /\ pc["http"] = "idle" =>
            ENABLED (MoveToLock /\ pc'["http"] # "idle"))
    /\ [](bluetoothBlocked /\ pc["pump"] = "trylock" /\ mu = None =>
            ENABLED (PumpTryLock /\ pc'["pump"] = "write"))
    /\ [](bluetoothBlocked /\ pc["pump"] = "write" => ENABLED PumpWrite)

\* With m.bluetoothBlocked set and the Bluetooth handler idle, the HTTP
\* handler holds the lock and has written the last packet on the bus.
C23_Witness ==
    /\ bluetoothBlocked
    /\ pc["bt"] = "idle"
    /\ pc["http"] = "write"
    /\ Len(bus) >= 1
    /\ LastWriter = "http"
    /\ resp["bt"] = None

\* The buffer b holds more than a packet and no start byte at the indices 1
\* to ReaderLen (counted from 0): the next start byte lies beyond index
\* ReaderLen, or there is none.
LongCandidate(b) ==
    /\ Len(b) > ReaderLen
    /\ \A j \in 2..(ReaderLen + 1) : b[j] # ReaderStart

\* C24: when the buffer holds an over-long candidate, packet returns its
\* first ReaderLen bytes, with errLongPacket exactly when the sum of the first
\* ReaderLen - 1 bytes, in a byte, differs from the byte after them, and
\* r.read is left empty: every other byte of the buffer is dropped.
C24_LongCandidate ==
    [][ReaderRead /\ LongCandidate(Buffered) =>
          /\ out'.done
          /\ out'.pkt = SubSeq(Buffered, 1, ReaderLen)
          /\ out'.err = IF SumBytes(SubSeq(Buffered, 1, ReaderLen - 1))
                             # Buffered[ReaderLen]
                        THEN "errLongPacket"
                        ELSE "nil"
          /\ read' = <<>>]_vars

\* packet has returned A5 5B 00 00 00, whose bytes sum up, with no error from
\* a stream of seven bytes, and the two bytes after the packet are gone.
C24_Witness ==
    /\ out.done
    /\ stream = <<165, 91, 0, 0, 0, 91, 0>>
    /\ out.pkt = <<165, 91, 0, 0, 0>>
    /\ out.err = "nil"
    /\ read = <<>>
    /\ chunks = <<>>

\* The buffer b holds a packet's length or more and its first start byte
\* after index 0 is at index k (counted from 0), before index ReaderLen.
ShortCandidate(b, k) ==
    /\ Len(b) >= ReaderLen
    /\ k \in 1..(ReaderLen - 1)
    /\ b[k + 1] = ReaderStart
    /\ \A j \in 2..k : b[j] # ReaderStart

\* C25: when the buffer holds a short candidate, with the next start byte at
\* index k, packet returns exactly the first k bytes with errShortPacket and
\* keeps the bytes from index k on in r.read for the next call; readUART then
\* logs the error and goes on to the next call of packet: the callback is not
\* called, so nothing is forwarded or stored and the watchdog is not updated,
\* and the pump does not return.
C25_ShortCandidate ==
    /\ [][\A k \in 1..(ReaderLen - 1) :
            ReaderRead /\ ShortCandidate(Buffered, k) =>
               /\ out'.done
               /\ out'.pkt = SubSeq(Buffered, 1, k)
               /\ out'.err = "errShortPacket"
               /\ read' = SubSeq(Buffered, k + 1, Len(Buffered))]_vars
    /\ [][ReadUART /\ out.err = "errShortPacket" =>
            /\ pc' = pc
            /\ out' = NoPacket
            /\ read' = read
            /\ <<pkt, bus, mu, position, fed, dropped>>'
                  = <<pkt, bus, mu, position, fed, dropped>>]_vars

\* packet has returned A5 00 with errShortPacket and has kept A5 5B 00, the
\* rest of the five bytes read, while two more bytes are still to come.
C25_Witness ==
    /\ out.done
    /\ out.err = "errShortPacket"
    /\ out.pkt = <<165, 0>>
    /\ read = <<165, 91, 0>>
    /\ chunks = <<<<0, 0>>>>
    /\ pc["pump"] = "read"

\* C26 as stated: r.read is empty whenever packet has returned, whatever it
\* returned.
C26_Original == out.done => read = <<>>

\* C26: r.read is empty when packet has returned a read error or
\* errLongPacket, and when it has returned a packet with no error that nothing
\* followed or that was an over-long candidate. After errShortPacket r.read
\* holds the bytes from the next start byte on, after a full packet that was
\* followed by a start byte it holds the bytes from that start byte on, and a
\* return on cancellation leaves r.read as it was.
C26_ReadAfterReturn ==
    /\ [](out.done /\ out.err \in {"errRead", "errLongPacket"} => read = <<>>)
    /\ [](out.done /\ out.err = "errShortPacket" =>
            read # <<>> /\ read[1] = ReaderStart)
    /\ [](out.done /\ out.err = "nil" => read = <<>> \/ read[1] = ReaderStart)
    /\ [][ReaderRead /\ out'.done /\ out'.err = "nil" =>
            read' = IF LongCandidate(Buffered)
                    THEN <<>>
                    ELSE SubSeq(Buffered, ReaderLen + 1, Len(Buffered))]_vars
    /\ [][ReaderCancelled => read' = read]_vars

\* packet has returned on cancellation with three bytes of a packet still in
\* r.read.
C26_Witness ==
    /\ out.done
    /\ out.err = "context.Canceled"
    /\ read = <<165, 0, 0>>
    /\ ctx

\* The buttons in the string t.
Pressed(t) == {t[j] : j \in 1..Len(t)}

\* C27 as stated: the buttons are read from byte 1 of the packet, the byte
\* directly after the header (the first byte of key's argument): bit i of it
\* set puts the i-th of m, 1, 2, 3, 4, u, d into the result, for i in 0..6.
C27_Original ==
    result.done /\ result.err = "nil" =>
        \A i \in 0..6 :
           (payload[1] \div (2 ^ i)) % 2 = 1 <=> press[i + 1] \in Pressed(result.s)

\* C27: the buttons are read from byte 2 of the packet, the second byte after
\* the header (the second byte of key's argument): bit i of it set puts the
\* i-th of m, 1, 2, 3, 4, u, d into the result, for i in 0..6, and a bit that
\* is not set leaves its button out. Byte 1, directly after the header, only
\* goes into the checksum.
C27_ButtonsFromByte2 ==
    result.done /\ result.err = "nil" =>
        \A i \in 0..6 :
           (payload[2] \div (2 ^ i)) % 2 = 1 <=> press[i + 1] \in Pressed(result.s)

\* key has returned "d" for 01 40 BF 00: bit 6 of byte 2 is set, and bit 0 of
\* byte 1 has put no "m" into the result.
C27_Witness ==
    /\ result.done
    /\ payload = <<1, 64, 191, 0>>
    /\ result.s = <<"d">>
    /\ result.err = "nil"

\* C28 as stated: every controller fault that height returns has a code from
\* 0 to 99, whatever the two bytes after the E are.
C28_Original ==
    result.done /\ result.err \in FaultErrs => result.code \in 0..99

\* C29 as stated: 79 06 06 gives a controller fault with the code 0.
C29_Original ==
    result.done /\ SubSeq(payload, 1, 3) = <<121, 6, 6>> =>
        result.err \in FaultErrs /\ result.code = 0

\* C29: 79 06 06 gives a controller fault with the code 11, 06 being the byte
\* of the digit 1; the code 0 is that of 79 3F 3F, 3F being the byte of the
\* digit 0. Neither comes with a position.
C29_FaultE11 ==
    /\ result.done /\ SubSeq(payload, 1, 3) = <<121, 6, 6>> =>
          /\ result.err \in FaultErrs
          /\ result.code = 11
          /\ result.pos = <<0, 0>>
    /\ result.done /\ SubSeq(payload, 1, 3) = <<121, 63, 63>> =>
          /\ result.err \in FaultErrs
          /\ result.code = 0
          /\ result.pos = <<0, 0>>

\* height has returned the fault E11 for 79 06 06 with the right checksum
\* byte.
C29_Witness ==
    /\ result.done
    /\ payload = <<121, 6, 6, 133>>
    /\ result.err = "contErr"
    /\ result.code = 11

\* C30 as stated: for a byte that has no entry in the table digit returns '?'
\* and no decimal point, also when the byte has bit 0x80 set.
C30_Original ==
    result.done /\ digits(payload[1]) = 0 =>
        result.code = 63 /\ ~result.dot

\* C30: for a byte whose low seven bits have no entry in the table digit
\* returns '?', and it reports the decimal point exactly when the byte has
\* bit 0x80 set. A byte whose low seven bits have an entry gives that
\* character, with the decimal point reported in the same way.
C30_PlaceholderKeepsDot ==
    result.done =>
        /\ result.dot = (payload[1] >= 128)
        /\ result.code = IF digits(payload[1] % 128) = 0
                         THEN 63
                         ELSE digits(payload[1] % 128)

\* digit has returned '?' with the decimal point for 80.
C30_Witness ==
    /\ result.done
    /\ payload = <<128>>
    /\ result.code = 63
    /\ result.dot

\* C31 as stated: when either pump has read no packet for a full timeout of
\* the watchdog, the watchdog has expired, whatever the other pump and main
\* have done.
C31_Original ==
    since["pump"] = WatchdogTimeout \/ since["ctl"] = WatchdogTimeout =>
        wd = WatchdogTimeout

\* C31: there is one watchdog, and an update by any of the handset pump, the
\* controller pump and main's heartbeat loop starts its counter again: it has
\* expired exactly when none of the three has updated it for a full timeout,
\* and its counter is the least of the times since the three last did.
C31_AnyTaskFeeds ==
    /\ wd = WatchdogTimeout <=> \A u \in Updaters : since[u] = WatchdogTimeout
    /\ \A u \in Updaters : wd <= since[u]
    /\ \E u \in Updaters : wd = since[u]

\* Neither pump has read a packet for a full timeout, and the watchdog has
\* just been updated by main.
C31_Witness ==
    /\ since["pump"] = WatchdogTimeout
    /\ since["ctl"] = WatchdogTimeout
    /\ since["main"] = 0
    /\ wd = 0
    /\ fed = "main"

\* C32 as stated: in the program that passes packets through, every packet
\* of the controller that the reader returns without a framing error is
\* written unchanged to the handset UART, whatever height makes of it.
C32_Original ==
    [][\A r \in ControllerPackets :
          CtlThroughOf(r) /\ r.err = "nil" =>
              hline' = LastN(Append(hline, r.pkt), HandsetWin)]_vars

\* C33 as stated: the activity line is high while a command or keep-alive
\* burst is writing, whatever the button's interrupt does meanwhile, and it is
\* low whenever no burst path holds the lock (the button not being pressed),
\* also after a burst that a write error ended.
C33_Original ==
    /\ \A t \in Bursters : pc[t] = "write" => act
    /\ mu \notin Bursters /\ ~button => ~act

\* The packet decodes without error in the handset callback.
Decodes(p) == key(SubSeq(p, 2, Len(p))).err = "nil"

\* C34: a handset packet for which key returns an error is never written to
\* the controller bus: the callback returns to the read, and the packet the
\* pump holds at TryLock and every packet it has written decodes without
\* error. Every handset packet that key decodes without error goes to TryLock,
\* whether or not its keys differ from those of the packet before.
C34_ForwardNotGatedByKeyChange ==
    /\ [](/\ pc["pump"] \in {"trylock", "write"} => Decodes(pkt)
          /\ \A i \in 1..Len(bus) : bus[i].w = "pump" => Decodes(bus[i].f))
    /\ [][\A r \in HandsetPackets :
            PumpReadLogOf(r) =>
                IF r.err = "nil" /\ Decodes(r.pkt)
                THEN pc'["pump"] = "trylock" /\ pkt' = r.pkt
                ELSE pc'["pump"] = "read" /\ pkt' = pkt /\ bus' = bus]_vars

\* The pump has written a packet whose keys were those of the packet before
\* it: the callback did not log the key, and went on to TryLock and the write.
C34_Witness ==
    /\ ~keyLog
    /\ lastP = <<"u">>
    /\ pc["pump"] = "unlock"
    /\ bus # <<>>
    /\ bus[Len(bus)] = [w |-> "pump", f |-> <<165, 0, 32, 223, 255>>]

\* C35: after any reads, read errors and returns of packet, r.read is empty
\* or begins with the start byte.
C35_BufferBeginsWithStart ==
    read = <<>> \/ read[1] = ReaderStart

\* packet has returned a short packet and r.read holds what came from the
\* next start byte on.
C35_Witness ==
    /\ out.done
    /\ out.err = "errShortPacket"
    /\ Len(read) >= 2
    /\ read[1] = ReaderStart

\* A packet of the reader's length that begins with the start byte and ends
\* with the sum of its three payload bytes.
WellFormed(f) ==
    /\ Len(f) = ReaderLen
    /\ f[1] = ReaderStart
    /\ f[5] = (f[2] + f[3] + f[4]) % 256

\* C36 as stated: when a well-formed packet is all that the peer has sent,
\* what packet returns from it (no read error, no cancellation) is the packet
\* itself, all five bytes, with no error, also when one of its payload bytes
\* or its checksum byte has the value of the start byte.
C36_Original ==
    /\ WellFormed(stream)
    /\ out.done
    /\ out.err \notin {"errRead", "context.Canceled"}
    => out.pkt = stream /\ out.err = "nil"

\* C37 as stated: whatever the reads give, r.read is never longer than a
\* packet and one read.
C37_Original ==
    Len(read) <= ReaderLen + ReaderBuf

\* C38: a packet that a reader has made of an over-long candidate is never
\* written to the controller bus and never stored as the position. The reader
\* returns it without error only when its first four bytes, the start byte
\* among them, sum to the fifth, and then the three bytes after the start byte
\* do not, the start bytes A5 and 5A not being zero: key or height returns an
\* error, and the handset pump does not go to TryLock and the controller pump
\* does not store.
C38_LongNeverForwarded ==
    /\ [](Len(stream) > ReaderLen =>
            /\ pc["pump"] = "read"
            /\ bus = <<>>
            /\ position = <<0, 0>>
            /\ out.done /\ out.err = "nil" =>
                  /\ out.pkt = SubSeq(stream, 1, ReaderLen)
                  /\ key(SubSeq(out.pkt, 2, 5)).err = "errChecksumMismatch"
                  /\ height(SubSeq(out.pkt, 2, 5)).err # "nil")
    /\ [][Len(stream) > ReaderLen /\ out.done /\ ~out'.done =>
            position' = position /\ pc' = pc]_vars

\* The controller's reader has returned 5A A6 00 00 00 without error, and the
\* callback has been called with it, updated the watchdog and stored nothing.
C38_Witness ==
    /\ stream = <<90, 166, 0, 0, 0, 0>>
    /\ chunks = <<>>
    /\ ~out.done
    /\ fed = "ctl"
    /\ position = <<0, 0>>

\* The tasks that take the mutex.
Lockers == {"pump", "http", "bt", "ka"}

\* C39: the pump, keepAlive and the command handlers never deadlock. The task
\* that holds the mutex is not parked and always has a step it can take: it
\* waits for no other task. It gives the mutex up in the end on every path,
\* a write error and an early return included, and every task parked on the
\* mutex leaves the queue in the end.
C39_NoDeadlock ==
    /\ [](/\ mu # None => mu \notin blocked /\ pc[mu] # "blocked"
          /\ mu = "pump" => ENABLED PumpStep
          /\ mu = "http" => ENABLED HttpStep
          /\ mu = "bt" => ENABLED BtStep
          /\ mu = "ka" => ENABLED KaStep)
    /\ \A t \in Lockers : (mu = t) ~> (mu # t)
    /\ \A t \in Lockers : (t \in blocked) ~> (t \notin blocked)

\* The HTTP handler's burst was ended by a write error while keepAlive and
\* the Bluetooth handler were parked on the mutex.
C39_Witness ==
    /\ pc["http"] = "ret"
    /\ resp["http"] = "500"
    /\ mu = "http"
    /\ blocked = {"ka", "bt"}

\* The decimal text of mantissa * 10^exponent for an exponent that is not
\* positive: the integer part, and after a point one digit for each of the
\* -exponent decimal places, zeros included.
Decimal(p) ==
    LET k == 0 - p[2]
        d == Pow10(k)
        f == p[1] % d
    IN  IF k = 0 THEN Itoa(p[1])
        ELSE Itoa(p[1] \div d) \o <<".">> \o
             [i \in 1..k |-> DigitChar[((f \div Pow10(k - i)) % 10) + 1]]

\* C40: for every position with mantissa 1..999 and exponent -2, -1 or 0 the
\* text reported for the height, in the body of /height/ after "h=" and in
\* the Bluetooth characteristic's value, is the decimal text of
\* mantissa * 10^exponent: the integer part mantissa div 10^-exponent and
\* exactly -exponent fractional digits, leading zeros included.
C40_Original ==
    result.done /\ result.err = "nil" /\ result.pos \in Displayed =>
        IF result.code = 200
        THEN result.s = <<"h", "=">> \o Decimal(result.pos)
        ELSE result.s = Copied(Decimal(result.pos))

=============================================================================
